---- MODULE Spec2Model ----
(***************************************************************************)
(* Model of the GPU arbitration locks (src/gpu/locks.rs), the sticky CPU   *)
(* fallback of groth16::create_proof (src/groth16/prover.rs) and the CPU   *)
(* multiexponentiation engine with its DensityTracker (src/multiexp.rs).   *)
(*                                                                         *)
(* The specifications share the variables:                                 *)
(*   Spec          processes calling PriorityLock::{lock,unlock,can_lock}  *)
(*                 and create_proof concurrently;                          *)
(*   SpecFair      the same without can_lock at top level and without      *)
(*                 environment faults, under weak fairness;                *)
(*   SpecProofs    processes that only run create_proof;                   *)
(*   SpecProbe     GPULock and PriorityLock with their two probes;         *)
(*   SpecKernel    LockedKernel::get (src/gpu/mod.rs);                     *)
(*   SpecCheck     gpu_multiexp_supported and its memo;                    *)
(*   SpecReentry   threads that own several PriorityLocks;                 *)
(*   SpecMultiexp  multiexp (both backends) / multiexp_inner on bounded    *)
(*                 inputs;                                                 *)
(*   SpecDensity   DensityTracker::{new,add_element,inc}.                  *)
(***************************************************************************)
EXTENDS Integers, Sequences, FiniteSets, TLC

(***************************************************************************)
(* Bounds of the model.                                                    *)
(***************************************************************************)
\* Number of OS processes (one thread each: IS_ME is thread-local and every
\* File::create opens its own file description, so a second thread of one
\* process behaves towards the locks exactly like another process).
NumProcs == 2
\* create_proof runs started, all processes together.
MaxProofs == 2
\* PriorityLock::lock calls, all processes together.
MaxLocks == 2

\* Longest base, exponent and density sequence given to multiexp.
MaxLen == 3
\* Largest exponent given to multiexp.
MaxExp == 5
\* Largest window width multiexp_inner is started with.
MaxC == 3
\* Largest cursor a base source starts with.
MaxSkip == 1
\* Fr::NUM_BITS of the model's scalar field: exponents are below 2^NumBits.
NumBits == 3
\* Order of the model's group: the integers modulo GroupOrder under
\* addition, the identity is 0 and the generator G is 1.
GroupOrder == 13
\* Number of LockedKernel::get calls.
MaxGets == 3
\* Positions a DensityTracker is grown to.
MaxBits == 4

\* The number of multiexp calls of one create_proof run.
NumCalls == 8

Procs == 1..NumProcs

VARIABLES
    \* ---- arbitration and pipeline (Spec) ----
    pc,         \* [Procs -> position of the process's thread]
    IS_ME,      \* [Procs -> BOOLEAN]  thread_local IS_ME
    prio,       \* [Procs -> "none" | "held" | "probe"]  flock on PRIORITY_LOCK_NAME
    dev,        \* [Procs -> "none" | "held"]            flock on LOCK_NAME
    span,       \* [Procs -> BOOLEAN] lock() returned Ok and unlock() not yet called
    run,        \* [Procs -> locals of the create_proof run in progress]
    proofs,     \* number of create_proof runs started
    locks,      \* number of PriorityLock::lock calls
    obs,        \* the call that returned in the last step, and its value
    \* ---- multiexp (SpecMultiexp) ----
    mx,         \* the arguments of one call, the function called, its result
    \* ---- DensityTracker (SpecDensity) ----
    dt,         \* the tracker: [bv, total_density]
    dtLast,     \* the last call on it: [op, idx, prev, rep]
    \* ---- environment ----
    env,        \* [faults]: whether I/O, synthesis and parameter errors occur;
                \* [probeErr]: a can_lock probe has met an I/O error
    \* ---- LockedKernel (SpecKernel) ----
    lk,         \* the LockedKernel of each process and its last get()
    \* ---- gpu_multiexp_supported (SpecCheck) ----
    sc,         \* GPU_MULTIEXP_SUPPORTED, its mutex and the calls in progress
    \* ---- GPULock (SpecProbe) ----
    gl,         \* [Procs -> "none" | "held" | "probe"]  flock on GPU_LOCK_NAME
    \* ---- several PriorityLocks in one thread (SpecReentry) ----
    pl          \* the threads' flags, their PriorityLocks and the call in progress

vars == <<pc, IS_ME, prio, dev, span, run, proofs, locks, obs, mx, dt, dtLast,
          env, lk, sc, gl, pl>>
arbVars == <<pc, IS_ME, prio, dev, span, run, proofs, locks, obs, env>>

(***************************************************************************)
(* fs2 advisory locks (flock): exclusive per open file description.        *)
(***************************************************************************)
\* self.0.lock_exclusive() on the description p's PriorityLock owns: it
\* proceeds when no OTHER description holds the lock (re-locking a
\* description that already holds it succeeds at once).
PrioLockFree_Shared(p) == TRUE

PrioLockFree(p) == \A q \in Procs \ {p} : prio[q] = "none"

\* try_lock_exclusive() on a description opened for the probe: it succeeds
\* only when no description at all holds the lock, the caller's own
\* PriorityLock included.
PrioProbeFree == \A q \in Procs : prio[q] = "none"

\* lock_exclusive() on the description get_lock_file has just opened.
DevLockFree_Shared == TRUE

DevLockFree == \A q \in Procs : dev[q] = "none"

\* obs when the last step returned from no call.
\* For create_proof: why it returned Err, the multiexp calls it had started,
\* whether a kernel multiexp among them had returned Err, whether a fallback
\* had already unlocked the device lock, and keep_cpu.
NoObs == [op |-> "none", p |-> 0, ret |-> "none", isMe |-> FALSE,
          free |-> FALSE, own |-> FALSE, io |-> FALSE, inSpan |-> FALSE,
          why |-> "none", calls |-> 0, failed |-> FALSE,
          unlocked |-> FALSE, keep_cpu |-> FALSE]

\* failed: the kernel's multiexp of some call has returned Err; result:
\* what the process's last create_proof returned, until it calls the next.
NoRun == [k |-> 0, keep_cpu |-> FALSE, kern |-> FALSE, poll |-> "none",
          arg |-> "none", sawFalse |-> FALSE, failed |-> FALSE,
          result |-> "none"]

InitArb ==
    /\ pc = [p \in Procs |-> "idle"]
    /\ IS_ME = [p \in Procs |-> FALSE]
    /\ prio = [p \in Procs |-> "none"]
    /\ dev = [p \in Procs |-> "none"]
    /\ span = [p \in Procs |-> FALSE]
    /\ run = [p \in Procs |-> NoRun]
    /\ proofs = 0
    /\ locks = 0
    /\ obs = NoObs

(***************************************************************************)
(* PriorityLock (src/gpu/locks.rs)                                         *)
(***************************************************************************)
LockCall_NoFlag(p) ==
    /\ pc[p] = "idle"
    /\ locks < MaxLocks
    /\ locks' = locks + 1
    /\ pc' = [pc EXCEPT ![p] = "lock_wait"]
    /\ obs' = NoObs
    /\ UNCHANGED <<IS_ME, prio, dev, span, run, proofs, mx, dt, dtLast, env, lk, sc, gl, pl>>

\* PriorityLock::lock, first half: IS_ME is set, then the thread blocks in
\* lock_exclusive.
LockCall(p) ==
    /\ pc[p] = "idle"
    /\ locks < MaxLocks
    /\ locks' = locks + 1
    /\ IS_ME' = [IS_ME EXCEPT ![p] = TRUE]
    /\ pc' = [pc EXCEPT ![p] = "lock_wait"]
    /\ obs' = NoObs
    /\ UNCHANGED <<prio, dev, span, run, proofs, mx, dt, dtLast, env, lk, sc, gl, pl>>

\* PriorityLock::lock, second half: lock_exclusive returns once the lock is
\* free, the thread holds it and lock returns Ok.
LockAcquire(p) ==
    /\ pc[p] = "lock_wait"
    /\ PrioLockFree(p)
    /\ prio' = [prio EXCEPT ![p] = "held"]
    /\ span' = [span EXCEPT ![p] = TRUE]
    /\ pc' = [pc EXCEPT ![p] = "idle"]
    /\ obs' = [NoObs EXCEPT !.op = "lock", !.p = p, !.ret = "ok"]
    /\ UNCHANGED <<IS_ME, dev, run, proofs, locks, mx, dt, dtLast, env, lk, sc, gl, pl>>

\* PriorityLock::lock, lock_exclusive()? fails with an I/O error: lock
\* returns Err, the lock is not taken and IS_ME stays as lock set it.
LockFail(p) ==
    /\ pc[p] = "lock_wait"
    /\ env.faults
    /\ pc' = [pc EXCEPT ![p] = "idle"]
    /\ obs' = [NoObs EXCEPT !.op = "lock", !.p = p, !.ret = "err"]
    /\ UNCHANGED <<IS_ME, prio, dev, span, run, proofs, locks, mx, dt, dtLast, env, lk, sc, gl, pl>>

\* PriorityLock::unlock: IS_ME is cleared first, then the file is unlocked;
\* when unlock()? fails the lock stays as it was. (A call that finds the
\* flag clear and the lock not held changes nothing and is left out.)
Unlock(p) ==
    /\ pc[p] = "idle"
    /\ IS_ME[p] \/ prio[p] = "held"
    /\ IS_ME' = [IS_ME EXCEPT ![p] = FALSE]
    /\ span' = [span EXCEPT ![p] = FALSE]
    /\ \E ok \in (IF env.faults THEN BOOLEAN ELSE {TRUE}) :
          /\ prio' = IF ok THEN [prio EXCEPT ![p] = "none"] ELSE prio
          /\ obs' = [NoObs EXCEPT !.op = "unlock", !.p = p,
                                  !.ret = IF ok THEN "ok" ELSE "err"]
    /\ UNCHANGED <<pc, dev, run, proofs, locks, mx, dt, dtLast, env, lk, sc, gl, pl>>

\* The value of `is_me || File::create(..)?.try_lock_exclusive().is_ok()`:
\* io is "ok", "create" (File::create fails, can_lock returns Err) or "lock"
\* (try_lock_exclusive fails with an I/O error); free says whether the
\* try-lock finds the lock free.
CanLockValue_FlagIgnored(isMe, io, free) ==
    IF io = "create" THEN "err"
    ELSE IF io = "ok" /\ free THEN "true" ELSE "false"

CanLockValue(isMe, io, free) ==
    IF isMe THEN "true"
    ELSE IF io = "create" THEN "err"
    ELSE IF io = "ok" /\ free THEN "true" ELSE "false"

\* What the caller of can_lock does with the value r: a poll of create_proof
\* (check_for_higher_prio: unwrap_or(false)) keeps it for the branch of call
\* k; any other caller is back at top level.
Returned(p, poll, r) ==
    /\ pc' = [pc EXCEPT ![p] = IF poll THEN "branch" ELSE "idle"]
    /\ run' = IF poll
              THEN [run EXCEPT ![p].poll = IF r = "true" THEN "true" ELSE "false",
                               ![p].sawFalse = @ \/ r # "true",
                               ![p].arg = "pending"]
              ELSE run

\* What File::create and try_lock_exclusive of a probe can meet.
ProbeIo == IF env.faults THEN {"ok", "create", "lock"} ELSE {"ok"}

\* PriorityLock::can_lock up to and including try_lock_exclusive, called by
\* a poll of create_proof (poll) or from top level. When the try-lock
\* succeeds the probe's description holds the lock until it is dropped
\* (CanLockDrop); in every other case can_lock returns here.
CanLockProbe(p, poll) ==
    /\ \E io \in ProbeIo :
          LET r == CanLockValue(IS_ME[p], io, PrioProbeFree)
              o == [NoObs EXCEPT !.op = "can_lock", !.p = p, !.ret = r,
                                 !.isMe = IS_ME[p], !.free = PrioLockFree(p),
                                 !.own = (prio[p] = "held"),
                                 !.io = (~IS_ME[p] /\ io # "ok"),
                                 !.inSpan = span[p]]
          IN  /\ IF ~IS_ME[p] /\ r = "true"
                 THEN /\ prio' = [prio EXCEPT ![p] = "probe"]
                      /\ pc' = [pc EXCEPT ![p] = IF poll THEN "poll_drop"
                                                 ELSE "api_drop"]
                      /\ run' = run
                      /\ obs' = NoObs
                 ELSE /\ prio' = prio
                      /\ Returned(p, poll, r)
                      /\ obs' = o
              /\ env' = [env EXCEPT !.probeErr = @ \/ o.io]
    /\ UNCHANGED <<IS_ME, dev, span, proofs, locks, mx, dt, dtLast, lk, sc, gl, pl>>

\* A thread at top level calls PriorityLock::can_lock.
CanLockCall(p) ==
    /\ pc[p] = "idle"
    /\ CanLockProbe(p, FALSE)

\* gpu::gpu_is_not_acquired(), the poll of check_for_higher_prio before call
\* k: the check whether the caller may use the device, PriorityLock::can_lock.
GpuIsNotAcquired(p) ==
    /\ pc[p] = "poll"
    /\ CanLockProbe(p, TRUE)

\* PriorityLock::can_lock, the temporary File is dropped: the probe's lock is
\* released and can_lock returns Ok(true).
CanLockDrop(p) ==
    /\ pc[p] \in {"poll_drop", "api_drop"}
    /\ prio' = [prio EXCEPT ![p] = "none"]
    /\ Returned(p, pc[p] = "poll_drop", "true")
    /\ obs' = [NoObs EXCEPT !.op = "can_lock", !.p = p, !.ret = "true",
                            !.isMe = IS_ME[p], !.free = PrioLockFree(p),
                            !.inSpan = span[p]]
    /\ UNCHANGED <<IS_ME, dev, span, proofs, locks, mx, dt, dtLast, env, lk, sc, gl, pl>>

(***************************************************************************)
(* create_proof (src/groth16/prover.rs)                                    *)
(***************************************************************************)
\* The multiexp calls create_proof has started so far.
Issued(p) ==
    IF pc[p] = "finish" THEN NumCalls
    ELSE IF pc[p] \in {"poll", "poll_drop", "branch"} THEN run[p].k - 1
    ELSE IF pc[p] = "gpu_call" THEN run[p].k
    ELSE 0

\* gpu::unlock(lock): the File's unlock releases the flock the description
\* holds, which changes nothing when it holds none; when it fails the lock
\* stays as it was.
UnlockDevice(d, p, ok) == IF ok THEN [d EXCEPT ![p] = "none"] ELSE d

\* The LockedFile goes out of scope: its File is closed and with it any
\* lock the description still holds.
DropLockedFile_StillLocked(d, p) == d

DropLockedFile(d, p) == [d EXCEPT ![p] = "none"]

\* create_proof returns r while the device lock is as in d: the LockedFile
\* is dropped.
ProofReturnsFrom(d, p, r, why) ==
    /\ dev' = DropLockedFile(d, p)
    /\ run' = [run EXCEPT ![p] = [NoRun EXCEPT !.result = r]]
    /\ pc' = [pc EXCEPT ![p] = "idle"]
    /\ obs' = [NoObs EXCEPT !.op = "create_proof", !.p = p, !.ret = r,
                            !.why = why, !.calls = Issued(p),
                            !.failed = run[p].failed,
                            !.unlocked = (dev[p] = "none"),
                            !.keep_cpu = run[p].keep_cpu]

\* create_proof returns r by a `?` or at its end.
ProofReturns(p, r, why) == ProofReturnsFrom(dev, p, r, why)

\* create_proof is called; it starts with gpu::get_lock_file().
CreateProof(p) ==
    /\ pc[p] = "idle"
    /\ proofs < MaxProofs
    /\ proofs' = proofs + 1
    /\ run' = [run EXCEPT ![p] = NoRun]
    /\ pc' = [pc EXCEPT ![p] = "get_lock"]
    /\ obs' = NoObs
    /\ UNCHANGED <<IS_ME, prio, dev, span, locks, mx, dt, dtLast, env, lk, sc, gl, pl>>

\* get_lock_file: File::create, then the blocking lock_exclusive, which
\* returns once the device lock is free.
GetLockFile(p) ==
    /\ pc[p] = "get_lock"
    /\ DevLockFree
    /\ dev' = [dev EXCEPT ![p] = "held"]
    /\ pc' = [pc EXCEPT ![p] = "setup"]
    /\ obs' = NoObs
    /\ UNCHANGED <<IS_ME, prio, span, run, proofs, locks, mx, dt, dtLast, env, lk, sc, gl, pl>>

\* get_lock_file()? fails with an I/O error: create_proof returns Err.
GetLockFileFail(p) ==
    /\ pc[p] = "get_lock"
    /\ env.faults
    /\ ProofReturns(p, "err", "io")
    /\ UNCHANGED <<IS_ME, prio, span, proofs, locks, mx, dt, dtLast, env, lk, sc, gl, pl>>

\* Lines 207-275: synthesis, the FFTs and gpu_multiexp_supported().ok(),
\* whose kernel is Some (kern) or None; keep_cpu starts false. A `?` on the
\* way returns Err.
Setup(p) ==
    /\ pc[p] = "setup"
    /\ \/ \E kern \in BOOLEAN :
             /\ run' = [run EXCEPT ![p].kern = kern, ![p].keep_cpu = FALSE,
                                   ![p].k = 1]
             /\ pc' = [pc EXCEPT ![p] = "poll"]
             /\ dev' = dev
             /\ obs' = NoObs
       \/ /\ env.faults
          /\ ProofReturns(p, "err", "synthesis")
    /\ UNCHANGED <<IS_ME, prio, span, proofs, locks, mx, dt, dtLast, env, lk, sc, gl, pl>>

\* params.get_a / get_b_g1 / get_b_g2 fail before the poll of call 3, 5, 7.
SourceFail(p) ==
    /\ pc[p] = "poll"
    /\ run[p].k \in {3, 5, 7}
    /\ env.faults
    /\ ProofReturns(p, "err", "params")
    /\ UNCHANGED <<IS_ME, prio, span, proofs, locks, mx, dt, dtLast, env, lk, sc, gl, pl>>

\* `!check_for_higher_prio!() || keep_cpu`: the branch that passes &mut None.
UseCpu_NotSticky(res, keep_cpu) == ~res

UseCpu(res, keep_cpu) == ~res \/ keep_cpu

\* keep_cpu after the `if !keep_cpu { .. }` block of call k: calls 1..7 set
\* it, call 8 only unlocks.
KeepAfterFallback_Unset(k, keep_cpu) == keep_cpu

KeepAfterFallback(k, keep_cpu) == IF k < NumCalls THEN TRUE ELSE keep_cpu

\* The device lock after the CPU branch of a call: `if !keep_cpu {
\* lock.unlock()?; }` releases it at the first fallback.
DevAfterFallback_Kept(p, keep_cpu) == dev

DevAfterFallback(p, keep_cpu) ==
    IF ~keep_cpu THEN [dev EXCEPT ![p] = "none"] ELSE dev

\* The run's locals once call k is issued.
NextCall(p) ==
    IF run[p].k < NumCalls
    THEN [run EXCEPT ![p].k = @ + 1]
    ELSE run

AfterCall(p) == IF run[p].k < NumCalls THEN "poll" ELSE "finish"

\* The if/else of call k (lines 277-297 and its 7 copies), taken with the
\* poll's value: on the CPU branch the first fallback sets keep_cpu and
\* unlocks the device lock (`lock.unlock()?`), then multiexp gets &mut None;
\* on the other branch multiexp gets &mut multiexp_kern and, when that holds
\* a kernel, runs the kernel's multiexp before it returns. In calls 1 and 2
\* the base source is fetched (`params.get_h(..)?`) as the call's argument.
Branch(p) ==
    /\ pc[p] = "branch"
    /\ LET r == run[p]
           cpu == UseCpu(r.poll = "true", r.keep_cpu)
       IN
       \/ \* the call is issued
          /\ IF cpu
             THEN /\ dev' = DevAfterFallback(p, r.keep_cpu)
                  /\ run' = [NextCall(p) EXCEPT
                                ![p].keep_cpu = IF ~r.keep_cpu
                                                THEN KeepAfterFallback(r.k, @)
                                                ELSE @,
                                ![p].arg = "None"]
                  /\ pc' = [pc EXCEPT ![p] = AfterCall(p)]
             ELSE IF r.kern
             THEN /\ dev' = dev
                  /\ run' = [run EXCEPT ![p].arg = "multiexp_kern"]
                  /\ pc' = [pc EXCEPT ![p] = "gpu_call"]
             ELSE /\ dev' = dev
                  /\ run' = [NextCall(p) EXCEPT ![p].arg = "multiexp_kern"]
                  /\ pc' = [pc EXCEPT ![p] = AfterCall(p)]
          /\ obs' = NoObs
       \/ \* lock.unlock()? fails: create_proof returns Err
          /\ cpu /\ ~r.keep_cpu
          /\ env.faults
          /\ ProofReturns(p, "err", "io")
       \/ \* params.get_h / get_l fails: create_proof returns Err
          /\ r.k \in {1, 2}
          /\ env.faults
          /\ ProofReturns(p, "err", "params")
    /\ UNCHANGED <<IS_ME, prio, span, proofs, locks, mx, dt, dtLast, env, lk, sc, gl, pl>>

\* The kernel's multiexp of call k returns (its result, Ok or Err, is kept
\* in the future that multiexp hands back).
GpuCallDone(p) ==
    /\ pc[p] = "gpu_call"
    /\ \E ok \in BOOLEAN :
          run' = [NextCall(p) EXCEPT ![p].failed = @ \/ ~ok]
    /\ pc' = [pc EXCEPT ![p] = AfterCall(p)]
    /\ obs' = NoObs
    /\ UNCHANGED <<IS_ME, prio, dev, span, proofs, locks, mx, dt, dtLast, env, lk, sc, gl, pl>>

\* What lines 528-568 return: UnexpectedIdentity when a delta of the
\* verifying key is the identity (deltaZero); else the error of the first
\* multiexp future whose wait()? fails, which is the case when a kernel
\* multiexp has returned Err (failed) or a CPU multiexp fails on its
\* parameters (cpuErr); else the proof.
FinishResult(deltaZero, failed, cpuErr) ==
    IF deltaZero THEN "delta"
    ELSE IF failed \/ cpuErr THEN "multiexp"
    ELSE "ok"

\* Lines 525-568: gpu::unlock(lock), whose result is not looked at, the
\* delta check and the waits.
Finish(p) ==
    /\ pc[p] = "finish"
    /\ \E deltaZero \in (IF env.faults THEN BOOLEAN ELSE {FALSE}),
          cpuErr \in (IF env.faults THEN BOOLEAN ELSE {FALSE}),
          ok \in (IF env.faults THEN BOOLEAN ELSE {TRUE}) :
          LET w == FinishResult(deltaZero, run[p].failed, cpuErr)
          IN  ProofReturnsFrom(UnlockDevice(dev, p, ok), p,
                               IF w = "ok" THEN "ok" ELSE "err",
                               IF w = "ok" THEN "none" ELSE w)
    /\ UNCHANGED <<IS_ME, prio, span, proofs, locks, mx, dt, dtLast, env, lk, sc, gl, pl>>

ArbNext ==
    \E p \in Procs :
        \/ LockCall(p)
        \/ LockAcquire(p)
        \/ LockFail(p)
        \/ Unlock(p)
        \/ CanLockCall(p)
        \/ GpuIsNotAcquired(p)
        \/ CanLockDrop(p)
        \/ CreateProof(p)
        \/ GetLockFile(p)
        \/ GetLockFileFail(p)
        \/ Setup(p)
        \/ SourceFail(p)
        \/ Branch(p)
        \/ GpuCallDone(p)
        \/ Finish(p)

\* The environment in which no I/O, synthesis or parameter error occurs.
NoFaults == [faults |-> FALSE, probeErr |-> FALSE]

Init ==
    /\ InitArb
    /\ pl = 0
    /\ env \in {[NoFaults EXCEPT !.faults = f] : f \in BOOLEAN}
    /\ mx = 0
    /\ dt = 0
    /\ dtLast = 0
    /\ lk = 0
    /\ sc = 0
    /\ gl = 0

Next == ArbNext

Spec == Init /\ [][Next]_vars

(***************************************************************************)
(* Claims about the arbitration protocol and the pipeline (Spec)           *)
(***************************************************************************)
\* p is inside the eight calls of a create_proof run.
InCalls(p) == pc[p] \in {"poll", "poll_drop", "branch", "gpu_call"}

\* C1: of two distinct processes that called PriorityLock::lock, at most one
\* is past the acquisition and holds the priority lock; a process that is
\* still inside lock while another one holds the lock has not acquired it.
C1_PriorityMutualExclusion ==
    \A p \in Procs : \A q \in Procs \ {p} :
        /\ ~(prio[p] = "held" /\ prio[q] = "held")
        /\ ~(span[p] /\ span[q])
        /\ (prio[p] = "held" /\ pc[q] = "lock_wait") => prio[q] = "none"

\* One process holds the priority lock while another one is blocked in lock.
C1_Witness ==
    \E p \in Procs : \E q \in Procs \ {p} :
        prio[p] = "held" /\ span[p] /\ pc[q] = "lock_wait"

\* C2: once a poll of a create_proof run has returned false, the call of
\* that poll and every later call of the run is issued with &mut None, also
\* after a later poll that returned true.
C2_FallbackSticky ==
    \A p \in Procs :
        run[p].sawFalse => run[p].arg \in {"pending", "None"}

\* A call was issued with &mut None right after a poll that returned true,
\* in a run in which an earlier poll had returned false.
C2_Witness ==
    \E p \in Procs :
        /\ run[p].sawFalse
        /\ run[p].poll = "true"
        /\ run[p].arg = "None"
        /\ run[p].k >= 2

\* C3 as claimed: can_lock returns true exactly when the caller's IS_ME is
\* set or no other process holds the priority lock at the probe.
C3_Original ==
    obs.op = "can_lock" =>
        /\ (obs.ret = "true") <=> (obs.isMe \/ obs.free)
        /\ (~obs.isMe /\ ~obs.free) => obs.ret = "false"

\* C3 as the code has it: can_lock returns true exactly when the caller's
\* IS_ME is set, or no description other than the probe's own holds the
\* priority lock (another process's, or the caller's own PriorityLock) and
\* the probe's file operations succeed; with IS_ME clear while another
\* process holds the lock it returns false or, when File::create fails, Err.
C3_CanLockValue ==
    obs.op = "can_lock" =>
        /\ (obs.ret = "true") <=>
               (obs.isMe \/ (obs.free /\ ~obs.own /\ ~obs.io))
        /\ (~obs.isMe /\ ~obs.free) => obs.ret \in {"false", "err"}

\* can_lock returned false to a thread whose IS_ME is clear while another
\* process holds the priority lock.
C3_Witness ==
    /\ obs.op = "can_lock"
    /\ obs.ret = "false"
    /\ ~obs.isMe
    /\ ~obs.io
    /\ \E q \in Procs \ {obs.p} : prio[q] = "held"

\* C4: a can_lock call made by a thread between its own successful lock and
\* its unlock returns true.
C4_HolderMayUseDevice ==
    (obs.op = "can_lock" /\ obs.inSpan) => obs.ret = "true"

\* The holder of the priority lock probed it and got true.
C4_Witness ==
    /\ obs.op = "can_lock"
    /\ obs.inSpan
    /\ obs.own
    /\ obs.ret = "true"

\* C5: in one create_proof run the device lock is held up to the first poll
\* that returns false and is released when the call of that poll is issued;
\* it is not held again before create_proof returns; keep_cpu, once set, stays
\* set until create_proof returns.
C5_ReleasedOnceForGood ==
    /\ [](\A p \in Procs :
            /\ (InCalls(p) /\ ~run[p].sawFalse) => dev[p] = "held"
            /\ (run[p].sawFalse /\ run[p].arg # "pending") => dev[p] = "none")
    /\ [][\A p \in Procs :
            run[p].keep_cpu => (run'[p].keep_cpu \/ pc'[p] = "idle")]_vars

\* A run that fell back goes on with its later calls without the device
\* lock, which another process has taken meanwhile.
C5_Witness ==
    \E p \in Procs : \E q \in Procs \ {p} :
        /\ pc[p] = "poll"
        /\ run[p].sawFalse
        /\ run[p].keep_cpu
        /\ run[p].arg = "None"
        /\ dev[p] = "none"
        /\ dev[q] = "held"

(***************************************************************************)
(* DensityTracker (src/multiexp.rs)                                        *)
(***************************************************************************)
\* Positions are 0-based in the source; position i is element i + 1 of bv.
\* DensityTracker::new
NewTracker == [bv |-> <<>>, total_density |-> 0]

AddElement_PushTrue(d) == [d EXCEPT !.bv = Append(@, TRUE)]

\* DensityTracker::add_element
AddElement(d) == [d EXCEPT !.bv = Append(@, FALSE)]

IncTracker_NoCheck(d, idx) ==
    [d EXCEPT !.bv[idx + 1] = TRUE, !.total_density = @ + 1]

\* DensityTracker::inc, idx < bv.len()
IncTracker(d, idx) ==
    IF ~d.bv[idx + 1]
    THEN [d EXCEPT !.bv[idx + 1] = TRUE, !.total_density = @ + 1]
    ELSE d

\* DensityTracker::get_total_density
GetTotalDensity(d) == d.total_density

\* <&DensityTracker as QueryDensity>::get_query_size
GetQuerySize(d) == Len(d.bv)

DtNew ==
    /\ dtLast.op # "new"
    /\ dt' = NewTracker
    /\ dtLast' = [op |-> "new", idx |-> 0, prev |-> NewTracker, rep |-> FALSE]
    /\ UNCHANGED <<arbVars, mx, lk, sc, gl, pl>>

DtAddElement ==
    /\ Len(dt.bv) < MaxBits
    /\ dt' = AddElement(dt)
    /\ dtLast' = [op |-> "add_element", idx |-> 0, prev |-> dt, rep |-> FALSE]
    /\ UNCHANGED <<arbVars, mx, lk, sc, gl, pl>>

\* inc(idx) with idx inside the allocated length (bv.get(idx).unwrap()
\* panics outside it).
DtInc ==
    \E idx \in 0..(Len(dt.bv) - 1) :
        /\ dt' = IncTracker(dt, idx)
        /\ dtLast' = [op |-> "inc", idx |-> idx, prev |-> dt,
                      rep |-> (dtLast.op = "inc" /\ dtLast.idx = idx)]
    /\ UNCHANGED <<arbVars, mx, lk, sc, gl, pl>>

InitDensity ==
    /\ InitArb
    /\ pl = 0
    /\ env = NoFaults
    /\ lk = 0
    /\ sc = 0
    /\ gl = 0
    /\ mx = 0
    /\ dt = NewTracker
    /\ dtLast = [op |-> "new", idx |-> 0, prev |-> NewTracker, rep |-> FALSE]

NextDensity ==
    \/ DtNew
    \/ DtAddElement
    \/ DtInc

SpecDensity == InitDensity /\ [][NextDensity]_vars

\* The number of set bits of a tracker.
SetBits(d) == Cardinality({i \in 1..Len(d.bv) : d.bv[i]})

\* C9: get_total_density() is the number of set bits; add_element appends
\* one unset position and leaves the count; add_element and inc neither
\* unset a bit nor remove a position.
C9_TotalDensityIsSetBits ==
    /\ GetTotalDensity(dt) = SetBits(dt)
    /\ dtLast.op = "add_element" =>
          /\ Len(dt.bv) = Len(dtLast.prev.bv) + 1
          /\ ~dt.bv[Len(dt.bv)]
          /\ GetTotalDensity(dt) = GetTotalDensity(dtLast.prev)
    /\ dtLast.op \in {"add_element", "inc"} =>
          /\ Len(dt.bv) >= Len(dtLast.prev.bv)
          /\ \A i \in 1..Len(dtLast.prev.bv) : dtLast.prev.bv[i] => dt.bv[i]

\* add_element was called on a tracker that has set bits and unset bits.
C9_Witness ==
    /\ dtLast.op = "add_element"
    /\ GetTotalDensity(dt) >= 2
    /\ Len(dt.bv) > GetTotalDensity(dt) + 1

\* C10: inc(i) twice leaves the tracker as inc(i) once leaves it, and from a
\* tracker whose bit i is unset the two calls raise the count by exactly 1.
C10_IncIdempotent ==
    /\ \A i \in 0..(Len(dt.bv) - 1) :
          /\ IncTracker(IncTracker(dt, i), i) = IncTracker(dt, i)
          /\ ~dt.bv[i + 1] =>
                GetTotalDensity(IncTracker(IncTracker(dt, i), i))
                    = GetTotalDensity(dt) + 1
    /\ (dtLast.op = "inc" /\ dtLast.rep) => dt = dtLast.prev

\* inc was called twice in a row on the same index of a tracker with more
\* than one position.
C10_Witness ==
    /\ dtLast.op = "inc"
    /\ dtLast.rep
    /\ Len(dt.bv) >= 2
    /\ GetTotalDensity(dt) >= 1

(***************************************************************************)
(* The CPU multiexponentiation (src/multiexp.rs)                           *)
(***************************************************************************)
\* G::Projective::zero()
Identity == 0

\* add_assign / add_assign_mixed of the group
GAdd(a, b) == (a + b) % GroupOrder

\* double()
GDouble(a) == (a + a) % GroupOrder

\* base.mul(exp)
GMul(a, e) == (a * e) % GroupOrder

RECURSIVE Pow2(_)
Pow2(n) == IF n = 0 THEN 1 ELSE 2 * Pow2(n - 1)

Min(a, b) == IF a < b THEN a ELSE b

\* A base source is (Arc<Vec<G>>, usize): the bases b and the 0-based cursor
\* cur. The result of an operation carries err: "none", "eof" (the
\* UnexpectedEof I/O error) or "identity" (SynthesisError::UnexpectedIdentity).
\* Variant of add_assign_mixed that adds the base without looking at it.
AddAssignMixed_NoIdentityCheck(b, cur, to) ==
    IF Len(b) <= cur THEN [err |-> "eof", cur |-> cur, to |-> to]
    ELSE [err |-> "none", cur |-> cur + 1, to |-> GAdd(to, b[cur + 1])]

\* Source::add_assign_mixed: `to` is the accumulator the base is added to.
AddAssignMixed(b, cur, to) ==
    IF Len(b) <= cur THEN [err |-> "eof", cur |-> cur, to |-> to]
    ELSE IF b[cur + 1] = Identity THEN [err |-> "identity", cur |-> cur, to |-> to]
    ELSE [err |-> "none", cur |-> cur + 1, to |-> GAdd(to, b[cur + 1])]

\* Variant of skip that moves the cursor without looking at the length.
SourceSkip_NoCheck(b, cur, amt) == [err |-> "none", cur |-> cur + amt]

\* Variant of skip that leaves the cursor where it is.
SourceSkip_Stays(b, cur, amt) ==
    IF Len(b) <= cur THEN [err |-> "eof", cur |-> cur]
    ELSE [err |-> "none", cur |-> cur]

\* Source::skip
SourceSkip(b, cur, amt) ==
    IF Len(b) <= cur THEN [err |-> "eof", cur |-> cur]
    ELSE [err |-> "none", cur |-> cur + amt]

\* QueryDensity::iter zipped with the exponents: FullDensity repeats true,
\* a DensityTracker yields its bits; zip stops with the shorter one.
ZipLen(dens, exps) ==
    IF dens.full THEN Len(exps) ELSE Min(Len(exps), Len(dens.bits))

DensityAt(dens, i) == IF dens.full THEN TRUE ELSE dens.bits[i]

\* `exp.shr(skip); exp.as_ref()[0] % (1 << c)`
Digit(exp, skip, c) == (exp \div Pow2(skip)) % Pow2(c)

\* Variant of the loop body in which an inactive position passes over a base.
ScanStep_InactiveSkipsBase(b, dens, exps, st, i, skip, c, handle_trivial) ==
    IF ~DensityAt(dens, i)
    THEN LET r == SourceSkip(b, st.cur, 1) IN
         [st EXCEPT !.err = r.err, !.cur = r.cur]
    ELSE LET exp == exps[i] IN
         IF exp = 0
         THEN LET r == SourceSkip(b, st.cur, 1) IN
              [st EXCEPT !.err = r.err, !.cur = r.cur]
         ELSE IF exp = 1
         THEN IF handle_trivial
              THEN LET r == AddAssignMixed(b, st.cur, st.acc) IN
                   [st EXCEPT !.err = r.err, !.cur = r.cur, !.acc = r.to]
              ELSE LET r == SourceSkip(b, st.cur, 1) IN
                   [st EXCEPT !.err = r.err, !.cur = r.cur]
         ELSE LET d == Digit(exp, skip, c) IN
              IF d # 0
              THEN LET r == AddAssignMixed(b, st.cur, st.buckets[d]) IN
                   [st EXCEPT !.err = r.err, !.cur = r.cur,
                              !.buckets[d] = r.to]
              ELSE LET r == SourceSkip(b, st.cur, 1) IN
                   [st EXCEPT !.err = r.err, !.cur = r.cur]

\* Variant of the loop body that adds the base of an exponent one to the
\* accumulator in every window.
ScanStep_TrivialInEveryWindow(b, dens, exps, st, i, skip, c, handle_trivial) ==
    IF ~DensityAt(dens, i) THEN st
    ELSE LET exp == exps[i] IN
         IF exp = 0
         THEN LET r == SourceSkip(b, st.cur, 1) IN
              [st EXCEPT !.err = r.err, !.cur = r.cur]
         ELSE IF exp = 1
         THEN LET r == AddAssignMixed(b, st.cur, st.acc) IN
              [st EXCEPT !.err = r.err, !.cur = r.cur, !.acc = r.to]
         ELSE LET d == Digit(exp, skip, c) IN
              IF d # 0
              THEN LET r == AddAssignMixed(b, st.cur, st.buckets[d]) IN
                   [st EXCEPT !.err = r.err, !.cur = r.cur,
                              !.buckets[d] = r.to]
              ELSE LET r == SourceSkip(b, st.cur, 1) IN
                   [st EXCEPT !.err = r.err, !.cur = r.cur]

\* One turn of the loop "Sort the bases into buckets" for position i
\* (1-based): st is [err, acc, buckets, cur].
ScanStep(b, dens, exps, st, i, skip, c, handle_trivial) ==
    IF ~DensityAt(dens, i) THEN st
    ELSE LET exp == exps[i] IN
         IF exp = 0
         THEN LET r == SourceSkip(b, st.cur, 1) IN
              [st EXCEPT !.err = r.err, !.cur = r.cur]
         ELSE IF exp = 1
         THEN IF handle_trivial
              THEN LET r == AddAssignMixed(b, st.cur, st.acc) IN
                   [st EXCEPT !.err = r.err, !.cur = r.cur, !.acc = r.to]
              ELSE LET r == SourceSkip(b, st.cur, 1) IN
                   [st EXCEPT !.err = r.err, !.cur = r.cur]
         ELSE LET d == Digit(exp, skip, c) IN
              IF d # 0
              THEN LET r == AddAssignMixed(b, st.cur, st.buckets[d]) IN
                   [st EXCEPT !.err = r.err, !.cur = r.cur,
                              !.buckets[d] = r.to]
              ELSE LET r == SourceSkip(b, st.cur, 1) IN
                   [st EXCEPT !.err = r.err, !.cur = r.cur]

\* The loop from position i on; a `?` that fails ends it.
RECURSIVE Scan(_, _, _, _, _, _, _, _)
Scan(b, dens, exps, st, i, skip, c, handle_trivial) ==
    IF i > ZipLen(dens, exps) \/ st.err # "none" THEN st
    ELSE Scan(b, dens, exps,
              ScanStep(b, dens, exps, st, i, skip, c, handle_trivial),
              i + 1, skip, c, handle_trivial)

\* "Summation by parts": buckets from the highest index j down to 1.
RECURSIVE SumByParts(_, _, _, _)
SumByParts(buckets, j, running_sum, acc) ==
    IF j = 0 THEN acc
    ELSE LET rs == GAdd(running_sum, buckets[j]) IN
         SumByParts(buckets, j - 1, rs, GAdd(acc, rs))

\* The closure given to pool.compute: one window (region) of the multiexp.
Window(b, cur, dens, exps, skip, c, handle_trivial) ==
    LET nb == Pow2(c) - 1
        st0 == [err |-> "none", acc |-> Identity,
                buckets |-> [j \in 1..nb |-> Identity], cur |-> cur]
        st == Scan(b, dens, exps, st0, 1, skip, c, handle_trivial)
    IN  IF st.err # "none" THEN [err |-> st.err, val |-> Identity, cur |-> st.cur]
        ELSE [err |-> "none", val |-> SumByParts(st.buckets, nb, Identity, st.acc),
              cur |-> st.cur]

RECURSIVE DoubleTimes(_, _)
DoubleTimes(x, n) == IF n = 0 THEN x ELSE DoubleTimes(GDouble(x), n - 1)

\* Variant of the combination that leaves out the doublings.
Combine_NoDoubling(this, higher, c) == GAdd(higher, this)

\* Variant of the combination that doubles the less significant part.
Combine_Swapped(this, higher, c) == GAdd(DoubleTimes(this, c), higher)

\* `higher` doubled c times, plus `this`.
Combine(this, higher, c) == GAdd(DoubleTimes(higher, c), this)

\* multiexp_inner: this region joined with the more significant ones. errs
\* is the set of errors of the regions: join yields the error of whichever
\* failed region it polls first, and the regions run on the pool in any
\* order. val is the value when no region fails.
RECURSIVE MultiexpInner(_, _, _, _, _, _, _)
MultiexpInner(b, cur, dens, exps, skip, c, handle_trivial) ==
    LET this == Window(b, cur, dens, exps, skip, c, handle_trivial)
        errs == IF this.err = "none" THEN {} ELSE {this.err}
    IN  IF skip + c >= NumBits
        THEN [errs |-> errs, val |-> this.val]
        ELSE LET higher == MultiexpInner(b, cur, dens, exps, skip + c, c, FALSE)
             IN  [errs |-> errs \cup higher.errs,
                  val |-> Combine(this.val, higher.val, c)]

\* What waiting on the future of multiexp_inner can give.
Outcomes(r) ==
    IF r.errs = {} THEN {[kind |-> "ok", val |-> r.val]}
    ELSE {[kind |-> e, val |-> Identity] : e \in r.errs}

\* `(f64::from(len as u32)).ln().ceil() as u32` for 32 <= len <= 8103.
CeilLn(len) ==
    IF len <= 54 THEN 4 ELSE IF len <= 148 THEN 5 ELSE IF len <= 403 THEN 6
    ELSE IF len <= 1096 THEN 7 ELSE IF len <= 2980 THEN 8 ELSE 9

\* The window width multiexp chooses.
WindowWidth(len) == IF len < 32 THEN 3 ELSE CeilLn(len)

\* Variant of multiexp without the assertion.
QuerySizeOk_Unchecked(dens, exps) == TRUE

\* `assert!(query_size == exponents.len())` for a density with a query size.
QuerySizeOk(dens, exps) == dens.full \/ Len(dens.bits) = Len(exps)

\* multiexp with kern = None: the results it can give, "panic" when the
\* assertion fails.
MultiexpCpu(b, cur, dens, exps) ==
    IF ~QuerySizeOk(dens, exps) THEN {[kind |-> "panic", val |-> Identity]}
    ELSE Outcomes(MultiexpInner(b, cur, dens, exps, 0,
                                WindowWidth(Len(exps)), TRUE))

\* naive_multiexp of test_with_bls12 (bases.len() == exponents.len()).
RECURSIVE NaiveMultiexp(_, _, _)
NaiveMultiexp(b, exps, n) ==
    IF n = 0 THEN Identity
    ELSE GAdd(NaiveMultiexp(b, exps, n - 1), GMul(b[n], exps[n]))

\* The bounded inputs: base j (1-based) is j*G or the identity.
RECURSIVE SeqsOver(_, _)
SeqsOver(S, n) ==
    IF n = 0 THEN {<<>>}
    ELSE {Append(q, x) : q \in SeqsOver(S, n - 1), x \in S}

RECURSIVE BaseSeqs(_)
BaseSeqs(n) ==
    IF n = 0 THEN {<<>>}
    ELSE {Append(q, x) : q \in BaseSeqs(n - 1), x \in {Identity, n % GroupOrder}}

ExpValues == 0..Min(MaxExp, Pow2(NumBits) - 1)

\* FullDensity, or a DensityTracker with its bits.
FullDensity == [full |-> TRUE, bits |-> <<>>]

Tracker(bv) == [full |-> FALSE, bits |-> bv]

Densities ==
    {FullDensity} \cup {Tracker(bv) : bv \in UNION {SeqsOver(BOOLEAN, n) : n \in 0..MaxLen}}

NoResult == [kind |-> "none", val |-> Identity]

\* No call of the kernel's multiexp has been made.
NoKernelCall == [called |-> FALSE, bases |-> <<>>, exps |-> <<>>,
                 skip |-> 0, n |-> 0]

\* Variant of the compaction loop that copies every exponent.
RECURSIVE CompactLoop_AllPositions(_, _, _, _)
CompactLoop_AllPositions(dens, exps, i, st) ==
    IF i > ZipLen(dens, exps) THEN st
    ELSE CompactLoop_AllPositions(dens, exps, i + 1,
             [exps |-> [st.exps EXCEPT ![st.n + 1] = exps[i]],
              n |-> st.n + 1])

\* The loop `for (&e, d) in exponents.iter().zip(density_map.iter())` of the
\* kernel path from position i on: `if d { exps[n] = e; n += 1; }`.
RECURSIVE CompactLoop(_, _, _, _)
CompactLoop(dens, exps, i, st) ==
    IF i > ZipLen(dens, exps) THEN st
    ELSE CompactLoop(dens, exps, i + 1,
             IF DensityAt(dens, i)
             THEN [exps |-> [st.exps EXCEPT ![st.n + 1] = exps[i]],
                   n |-> st.n + 1]
             ELSE st)

\* `vec![exponents[0]; exponents.len()]` filled by the loop (exponents not
\* empty): the vector and the count n handed to the kernel.
Compact(dens, exps) ==
    CompactLoop(dens, exps, 1,
                [exps |-> [j \in 1..Len(exps) |-> exps[1]], n |-> 0])

\* MultiexpKernel::multiexp(bases, exps, skip, n): the sum of exps[j] times
\* bases[skip + j] over the first n exponents, or a GPUError; with fewer than
\* skip + n bases it fails one way or the other.
KernelMultiexp(b, exps, skip, n) ==
    IF skip + n <= Len(b)
    THEN {[kind |-> "ok", val |-> NaiveMultiexp(SubSeq(b, skip + 1, Len(b)), exps, n)],
          [kind |-> "gpu", val |-> Identity]}
    ELSE {[kind |-> "gpu", val |-> Identity], [kind |-> "index", val |-> Identity]}

\* multiexp with kern = Some(k): what it returns and what it has handed to
\* the kernel. `exponents[0]` panics on an empty exponent vector ("index");
\* the query-size assertion is not reached on this path.
MultiexpKern(b, cur, dens, exps) ==
    IF Len(exps) = 0
    THEN {[res |-> [kind |-> "index", val |-> Identity], kargs |-> NoKernelCall]}
    ELSE LET k == Compact(dens, exps)
         IN  {[res |-> r,
               kargs |-> [called |-> TRUE, bases |-> b, exps |-> k.exps,
                          skip |-> cur, n |-> k.n]] :
                 r \in KernelMultiexp(b, k.exps, cur, k.n)}

InitMultiexp ==
    /\ InitArb
    /\ pl = 0
    /\ env = NoFaults
    /\ lk = 0
    /\ sc = 0
    /\ gl = 0
    /\ dt = 0
    /\ dtLast = 0
    /\ \E nb \in 0..MaxLen, ne \in 0..MaxLen :
       \E b \in BaseSeqs(nb), exps \in SeqsOver(ExpValues, ne),
          dens \in Densities, cur \in 0..MaxSkip :
          mx = [bases |-> b, cur |-> cur, dens |-> dens, exps |-> exps,
                fn |-> "none", c |-> 0, res |-> NoResult,
                kargs |-> NoKernelCall]

\* multiexp_inner(pool, bases, density_map, exponents, 0, c, true), waited for.
RunMultiexpInner ==
    /\ mx.fn = "none"
    /\ \E c \in 1..MaxC :
       \E r \in Outcomes(MultiexpInner(mx.bases, mx.cur, mx.dens, mx.exps,
                                       0, c, TRUE)) :
          mx' = [mx EXCEPT !.fn = "multiexp_inner", !.c = c, !.res = r]
    /\ UNCHANGED <<arbVars, dt, dtLast, lk, sc, gl, pl>>

\* multiexp(pool, bases, density_map, exponents, &mut None), waited for.
RunMultiexp ==
    /\ mx.fn = "none"
    /\ \E r \in MultiexpCpu(mx.bases, mx.cur, mx.dens, mx.exps) :
          mx' = [mx EXCEPT !.fn = "multiexp",
                           !.c = WindowWidth(Len(mx.exps)), !.res = r]
    /\ UNCHANGED <<arbVars, dt, dtLast, lk, sc, gl, pl>>

\* multiexp(pool, bases, density_map, exponents, &mut Some(k)), waited for.
RunMultiexpKern ==
    /\ mx.fn = "none"
    /\ \E o \in MultiexpKern(mx.bases, mx.cur, mx.dens, mx.exps) :
          mx' = [mx EXCEPT !.fn = "multiexp_kern", !.res = o.res,
                           !.kargs = o.kargs]
    /\ UNCHANGED <<arbVars, dt, dtLast, lk, sc, gl, pl>>

NextMultiexp ==
    \/ RunMultiexpInner
    \/ RunMultiexp
    \/ RunMultiexpKern

SpecMultiexp == InitMultiexp /\ [][NextMultiexp]_vars

(***************************************************************************)
(* Properties of the CPU multiexponentiation                               *)
(***************************************************************************)
\* A call on the CPU path has returned.
Done == mx.fn \in {"multiexp_inner", "multiexp"}

Ok(v) == [kind |-> "ok", val |-> v]

\* The bases from the source's cursor on.
FromCursor(b, cur) == SubSeq(b, cur + 1, Len(b))

\* Active positions before position i.
ActiveBefore(dens, i) == Cardinality({j \in 1..(i - 1) : DensityAt(dens, j)})

\* Active positions among those the loop visits.
NumActive(dens, exps) == ActiveBefore(dens, ZipLen(dens, exps) + 1)

\* A base is there for every active position.
LongEnough(b, cur, dens, exps) == Len(b) >= cur + NumActive(dens, exps)

\* The exponents of the active positions, in order.
RECURSIVE ActiveExps(_, _, _)
ActiveExps(dens, exps, n) ==
    IF n = 0 THEN <<>>
    ELSE IF DensityAt(dens, n) THEN Append(ActiveExps(dens, exps, n - 1), exps[n])
    ELSE ActiveExps(dens, exps, n - 1)

\* The case of C6: multiexp_inner from skip 0 with handle_trivial true, full
\* density, one base per exponent.
C6_Case ==
    /\ mx.fn = "multiexp_inner"
    /\ mx.dens.full
    /\ Len(mx.bases) = mx.cur + Len(mx.exps)

C6_Naive == NaiveMultiexp(FromCursor(mx.bases, mx.cur), mx.exps, Len(mx.exps))

\* C6 as stated: for every window width and every base/exponent sequence
\* under full density the bucket method returns the naive sum of
\* base[i] * exponent[i].
C6_Original == C6_Case => mx.res = Ok(C6_Naive)

\* C6: for every window width c in 1..MaxC and every base/exponent sequence
\* under full density in which no base with a nonzero exponent is the
\* identity, multiexp_inner started at skip 0 with handle_trivial true
\* returns the same group element as the naive sequential sum of
\* base[i] * exponent[i].
C6_BucketEqualsNaive ==
    (/\ C6_Case
     /\ \A i \in 1..Len(mx.exps) :
           mx.exps[i] # 0 => mx.bases[mx.cur + i] # Identity)
    => mx.res = Ok(C6_Naive)

\* Three bases, several windows, digits in more than one of them.
C6_Witness ==
    /\ C6_Case
    /\ Len(mx.exps) = MaxLen
    /\ mx.c = 2
    /\ \E i \in 1..Len(mx.exps) : mx.exps[i] >= 5
    /\ \E i \in 1..Len(mx.exps) : mx.exps[i] = 1
    /\ \A i \in 1..Len(mx.exps) : mx.bases[mx.cur + i] # Identity
    /\ mx.res.kind = "ok"
    /\ mx.res.val = C6_Naive
    /\ mx.res.val # Identity

\* The case of C7: a call that does not stop at the query-size assertion and
\* whose base sequence has a base for every active position.
C7_Case ==
    /\ Done
    /\ mx.fn = "multiexp" => QuerySizeOk(mx.dens, mx.exps)
    /\ LongEnough(mx.bases, mx.cur, mx.dens, mx.exps)

\* C7 as stated, the position counted in the base sequence: if the base at
\* an active position with a nonzero exponent is the identity, the result
\* is the UnexpectedIdentity error.
C7_Original ==
    (/\ C7_Case
     /\ Len(mx.bases) >= mx.cur + ZipLen(mx.dens, mx.exps)
     /\ \E i \in 1..ZipLen(mx.dens, mx.exps) :
           /\ DensityAt(mx.dens, i)
           /\ mx.exps[i] # 0
           /\ mx.bases[mx.cur + i] = Identity)
    => mx.res.kind = "identity"

\* C7: if the base that an active position with a nonzero exponent takes
\* from the source (the base at the cursor plus the number of active
\* positions before it) is the identity, and there is a base for every
\* active position, the CPU multiexp never returns a sum: its result is the
\* UnexpectedIdentity error, whichever window meets the identity.
C7_IdentityIsReported ==
    (/\ C7_Case
     /\ \E i \in 1..ZipLen(mx.dens, mx.exps) :
           /\ DensityAt(mx.dens, i)
           /\ mx.exps[i] # 0
           /\ mx.bases[mx.cur + ActiveBefore(mx.dens, i) + 1] = Identity)
    => mx.res.kind = "identity"

\* The identity is met in the most significant of three windows only, after
\* an inactive position.
C7_Witness ==
    /\ C7_Case
    /\ mx.fn = "multiexp_inner"
    /\ mx.c = 1
    /\ mx.cur = 0
    /\ ~mx.dens.full
    /\ mx.dens.bits = <<FALSE, TRUE>>
    /\ mx.exps = <<3, 4>>
    /\ mx.bases = <<Identity, 2>>
    /\ mx.res.kind = "identity"

\* The call of C8: bases [G, 2G, 3G], position 1 (0-based) inactive,
\* exponents [1, 5, 1].
C8_Case ==
    /\ mx.fn = "multiexp"
    /\ mx.bases = <<1, 2, 3>>
    /\ mx.cur = 0
    /\ mx.dens = Tracker(<<TRUE, FALSE, TRUE>>)
    /\ mx.exps = <<1, 5, 1>>

\* C8 as stated: the call returns 4G = G + 3G, the result of the call with
\* all positions active and exponents [1, 0, 1].
C8_Original ==
    C8_Case => /\ mx.res = Ok(4 % GroupOrder)
               /\ mx.res \in MultiexpCpu(<<1, 2, 3>>, 0, FullDensity, <<1, 0, 1>>)

\* C8: with bases [G, 2G, 3G], position 1 inactive and exponents [1, 5, 1],
\* multiexp returns 3G (= G + 2G); in general an inactive position is
\* skipped regardless of its exponent and takes no base from the source, so
\* the call returns what the call with full density and the exponents of
\* the active positions returns.
C8_InactiveTakesNoBase ==
    /\ C8_Case => mx.res = Ok(3 % GroupOrder)
    /\ (mx.fn = "multiexp" /\ ~mx.dens.full /\ QuerySizeOk(mx.dens, mx.exps))
       => mx.res \in MultiexpCpu(mx.bases, mx.cur, FullDensity,
                                 ActiveExps(mx.dens, mx.exps, Len(mx.exps)))

C8_Witness ==
    /\ C8_Case
    /\ mx.res.kind = "ok"
    /\ mx.res.val = GAdd(mx.bases[1], mx.bases[2])

(***************************************************************************)
(* LockedKernel (src/gpu/mod.rs)                                           *)
(***************************************************************************)
\* Option::None for a kernel; a kernel is named by the number of the factory
\* call that made it.
NoKernel == 0

NoGet == [op |-> "none", p |-> 0, can |-> FALSE, before |-> NoKernel,
          after |-> NoKernel, called |-> FALSE, some |-> FALSE]

\* LockedKernel::new(f) in every process: no kernel held. created and
\* dropped count the kernels the factory has returned to the process and the
\* kernels the process has dropped, calls the factory invocations.
InitKernel ==
    /\ InitArb
    /\ pl = 0
    /\ env \in {[NoFaults EXCEPT !.faults = f] : f \in BOOLEAN}
    /\ mx = 0
    /\ dt = 0
    /\ dtLast = 0
    /\ sc = 0
    /\ gl = 0
    /\ lk = [kernel |-> [p \in Procs |-> NoKernel],
             created |-> [p \in Procs |-> 0],
             dropped |-> [p \in Procs |-> 0],
             calls |-> 0, gets |-> 0, last |-> NoGet]

\* Whether get() calls the factory: `else if self.kernel.is_none()`.
FactoryCalled_Always(kernel, can) == can

FactoryCalled(kernel, can) == can /\ kernel = NoKernel

\* self.kernel after the if/else of get(); f is what the factory returns
\* when it is called.
GetKernel_KeptOnPreemption(kernel, can, f) ==
    IF can /\ kernel = NoKernel THEN f ELSE kernel

GetKernel(kernel, can, f) ==
    IF ~can THEN NoKernel
    ELSE IF kernel = NoKernel THEN f
    ELSE kernel

\* get() with the value r of PriorityLock::can_lock(). `!` takes a bool, so
\* an Err is taken for false, as check_for_higher_prio (unwrap_or(false))
\* takes it. The handle returned is &mut self.kernel; gets is the number of
\* get() calls made so far, this one included.
KernelGetReturns(p, r, gets) ==
    \E some \in BOOLEAN :
       LET can == (r = "true")
           before == lk.kernel[p]
           called == FactoryCalled(before, can)
           f == IF some THEN lk.calls + 1 ELSE NoKernel
           after == GetKernel(before, can, f)
       IN  /\ called \/ ~some
           /\ lk' = [lk EXCEPT
                       !.kernel[p] = after,
                       !.gets = gets,
                       !.calls = IF called THEN @ + 1 ELSE @,
                       !.created[p] = IF called /\ some THEN @ + 1 ELSE @,
                       !.dropped[p] = IF ~can /\ before # NoKernel
                                      THEN @ + 1 ELSE @,
                       !.last = [op |-> "get", p |-> p, can |-> can,
                                 before |-> before, after |-> after,
                                 called |-> called, some |-> called /\ some]]
           /\ pc' = [pc EXCEPT ![p] = "idle"]

\* LockedKernel::get up to and including the try-lock of can_lock; when the
\* try-lock succeeds the probe's description holds the priority lock until
\* it is dropped (KernelGetDrop).
KernelGet(p) ==
    /\ pc[p] = "idle"
    /\ lk.gets < MaxGets
    /\ \E io \in ProbeIo :
          LET r == CanLockValue(IS_ME[p], io, PrioProbeFree)
          IN  /\ IF ~IS_ME[p] /\ r = "true"
                 THEN /\ prio' = [prio EXCEPT ![p] = "probe"]
                      /\ pc' = [pc EXCEPT ![p] = "get_drop"]
                      /\ lk' = [lk EXCEPT !.gets = @ + 1]
                 ELSE /\ prio' = prio
                      /\ KernelGetReturns(p, r, lk.gets + 1)
              /\ env' = [env EXCEPT !.probeErr = @ \/ (~IS_ME[p] /\ io # "ok")]
    /\ obs' = NoObs
    /\ UNCHANGED <<IS_ME, dev, span, run, proofs, locks, mx, dt, dtLast, sc, gl, pl>>

\* The probe's File is dropped, can_lock returns Ok(true) and get() goes on.
KernelGetDrop(p) ==
    /\ pc[p] = "get_drop"
    /\ prio' = [prio EXCEPT ![p] = "none"]
    /\ KernelGetReturns(p, "true", lk.gets)
    /\ obs' = NoObs
    /\ UNCHANGED <<IS_ME, dev, span, run, proofs, locks, mx, dt, dtLast, env, sc, gl, pl>>

NextKernel ==
    \E p \in Procs :
        \/ LockCall(p)
        \/ LockAcquire(p)
        \/ LockFail(p)
        \/ Unlock(p)
        \/ KernelGet(p)
        \/ KernelGetDrop(p)

SpecKernel == InitKernel /\ [][NextKernel]_vars

(***************************************************************************)
(* Properties of LockedKernel                                              *)
(***************************************************************************)
\* C11: whenever get() observes may_use_device() = false, any held kernel is
\* dropped, the factory is not called and the handle returned is empty; a
\* process that holds no kernel comes to hold one only by a get() of its own
\* that observes may_use_device() = true.
C11_PreemptedGetIsEmpty ==
    /\ [](lk.last.op = "get" /\ ~lk.last.can
            => /\ lk.last.after = NoKernel
               /\ lk.kernel[lk.last.p] = NoKernel
               /\ ~lk.last.called)
    /\ [][\A p \in Procs :
            lk.kernel[p] = NoKernel /\ lk'.kernel[p] # NoKernel
               => lk'.last.p = p /\ lk'.last.can /\ lk'.last.called]_vars

\* A get() that drops a held kernel while another process holds the
\* priority lock.
C11_Witness ==
    /\ lk.last.op = "get"
    /\ ~lk.last.can
    /\ lk.last.before # NoKernel
    /\ lk.kernel[lk.last.p] = NoKernel
    /\ \E q \in Procs \ {lk.last.p} : prio[q] = "held"

\* C12: a LockedKernel holds at most one kernel at any time (the kernels
\* the factory gave it less the ones it dropped), get() calls the factory
\* exactly when may_use_device() is true and no kernel is held, a get()
\* that finds a kernel while the device is usable returns that same kernel
\* without calling the factory, and a factory that returns none leaves the
\* handle empty.
C12_OneCachedKernel ==
    /\ \A p \in Procs :
          lk.created[p] - lk.dropped[p] = IF lk.kernel[p] = NoKernel THEN 0 ELSE 1
    /\ lk.last.op = "get"
       => /\ lk.last.called <=> (lk.last.can /\ lk.last.before = NoKernel)
          /\ (lk.last.can /\ lk.last.before # NoKernel)
                => lk.last.after = lk.last.before
          /\ (lk.last.called /\ ~lk.last.some) => lk.last.after = NoKernel
          /\ (lk.last.called /\ lk.last.some) => lk.last.after # NoKernel

\* The factory returned none, was called again by the next get(), and the
\* get() after that returns the cached kernel.
C12_Witness ==
    /\ lk.last.op = "get"
    /\ lk.last.can
    /\ lk.last.before # NoKernel
    /\ lk.last.after = lk.last.before
    /\ lk.calls = 2
    /\ lk.created[lk.last.p] = 1

(***************************************************************************)
(* Further properties of the arbitration protocol and the pipeline         *)
(***************************************************************************)
\* C13 as stated: at every moment a thread's Priority Flag is true only if
\* the thread's lock() has returned Ok and its unlock() has not been called
\* since; so it is false while the thread is blocked in lock() and after a
\* lock() that failed with an I/O error.
C13_Original ==
    \A p \in Procs : IS_ME[p] => (span[p] /\ prio[p] = "held")

(***************************************************************************)
(* Fair runs without environment faults (SpecFair): processes that take    *)
(* and release the priority lock and run create_proof. A thread that is    *)
(* inside a call keeps being scheduled; nothing obliges it to start one.   *)
(***************************************************************************)
InitFair ==
    /\ InitArb
    /\ pl = 0
    /\ env = NoFaults
    /\ mx = 0
    /\ dt = 0
    /\ dtLast = 0
    /\ lk = 0
    /\ sc = 0
    /\ gl = 0

\* The steps inside PriorityLock::lock and create_proof.
InsideCall(p) ==
    \/ LockAcquire(p)
    \/ GetLockFile(p)
    \/ Setup(p)
    \/ GpuIsNotAcquired(p)
    \/ CanLockDrop(p)
    \/ Branch(p)
    \/ GpuCallDone(p)
    \/ Finish(p)

NextFair ==
    \E p \in Procs :
        \/ LockCall(p)
        \/ Unlock(p)
        \/ CreateProof(p)
        \/ InsideCall(p)

SpecFair ==
    /\ InitFair
    /\ [][NextFair]_vars
    /\ \A p \in Procs : WF_vars(InsideCall(p))

\* Process p runs create_proof with the device lock held, and process q has
\* taken the priority lock and waits for the device lock in get_lock_file.
Preempting(p, q) ==
    /\ dev[p] = "held"
    /\ pc[p] \in {"poll", "poll_drop", "branch", "gpu_call"}
    /\ prio[q] = "held"
    /\ IS_ME[q]
    /\ pc[q] = "get_lock"

\* C14 as stated: from a moment at which a low-priority create_proof holds
\* the device lock and another process has asserted priority and waits for
\* the device, an accelerator call in flight runs to its end, the waiting
\* process comes to hold the device lock, and both create_proof calls
\* return a proof.
C14_Original ==
    /\ [][\A p \in Procs :
            pc[p] = "gpu_call" /\ pc'[p] # "gpu_call"
               => run'[p].k = run[p].k + 1 \/ pc'[p] = "finish"]_vars
    /\ \A p \in Procs : \A q \in Procs \ {p} :
          /\ Preempting(p, q) ~> (dev[q] = "held")
          /\ Preempting(p, q) ~> (run[p].result = "ok" /\ run[q].result = "ok")

(***************************************************************************)
(* gpu_multiexp_supported (src/multiexp.rs): the accelerator self-check    *)
(* and its memo GPU_MULTIEXP_SUPPORTED, called by the threads of one       *)
(* process (SpecCheck).                                                    *)
(***************************************************************************)
\* gpu_multiexp_supported calls, all threads of the process together.
MaxChecks == 4

\* Option::None of GPU_MULTIEXP_SUPPORTED; Some(true) and Some(false) are
\* "true" and "false".
NoVerdict == "none"

\* A thread outside gpu_multiexp_supported. stored is the memo at the moment
\* of the call, noCheck whether BELLMAN_GPU_NO_CHECK was found set, memoRead
\* whether the call got as far as reading the memo, ran whether it started
\* the comparison, afterErr whether the call was made right after a call
\* that returned an error and left the memo empty.
NoCheckCall == [pc |-> "idle", stored |-> NoVerdict, ran |-> FALSE,
                afterErr |-> FALSE]

NoCheckObs == [op |-> "none", t |-> 0, ret |-> "none", noCheck |-> FALSE,
               stored |-> NoVerdict, memoRead |-> FALSE, ran |-> FALSE,
               afterErr |-> FALSE]

\* The process starts with an empty memo and a free mutex. verdicts counts
\* the comparisons that reached `*supported = Some(res)`.
InitCheck ==
    /\ InitArb
    /\ pl = 0
    /\ env = NoFaults
    /\ mx = 0
    /\ dt = 0
    /\ dtLast = 0
    /\ lk = 0
    /\ gl = 0
    /\ sc = [memo |-> NoVerdict, mutex |-> 0,
             th |-> [t \in Procs |-> NoCheckCall],
             verdicts |-> 0, calls |-> 0, last |-> NoCheckObs]

\* `if let Some(res) = *supported { res } else { ... }`: the comparison is
\* run when the memo is empty.
RunsComparison_Always(memo) == TRUE

RunsComparison(memo) == memo = NoVerdict

\* `if res { Ok(kern.unwrap()) } else { Err(GPUError ...) }`.
Answer_Kernel(res) == "kernel"

Answer(res) == IF res THEN "kernel" ELSE "err"

\* gpu_multiexp_supported returns ret on thread t; memo and verdicts are the
\* values the call leaves behind. The MutexGuard is dropped on every path
\* out of the block, the `?` ones included.
SupportedReturns(t, ret, noCheck, memoRead, memo, verdicts) ==
    sc' = [sc EXCEPT !.th[t] = NoCheckCall,
                     !.memo = memo,
                     !.verdicts = verdicts,
                     !.mutex = IF sc.mutex = t THEN 0 ELSE @,
                     !.last = [op |-> "supported", t |-> t, ret |-> ret,
                               noCheck |-> noCheck,
                               stored |-> sc.th[t].stored,
                               memoRead |-> memoRead,
                               ran |-> sc.th[t].ran,
                               afterErr |-> sc.th[t].afterErr]]

\* A thread calls gpu_multiexp_supported.
SupportedCall(t) ==
    /\ sc.th[t].pc = "idle"
    /\ sc.calls < MaxChecks
    /\ sc' = [sc EXCEPT !.th[t] = [pc |-> "create", stored |-> sc.memo,
                                   ran |-> FALSE,
                                   afterErr |-> /\ sc.last.op = "supported"
                                                /\ sc.last.ret = "err"
                                                /\ sc.memo = NoVerdict],
                        !.calls = @ + 1,
                        !.last = NoCheckObs]
    /\ UNCHANGED <<arbVars, mx, dt, dtLast, lk, gl, pl>>

\* MultiexpKernel::create()? and the test of BELLMAN_GPU_NO_CHECK, which
\* comes before the memo is looked at.
SupportedCreate(t) ==
    /\ sc.th[t].pc = "create"
    /\ \E created \in BOOLEAN : \E noCheck \in BOOLEAN :
          IF ~created
          THEN /\ ~noCheck
               /\ SupportedReturns(t, "err", FALSE, FALSE, sc.memo, sc.verdicts)
          ELSE IF noCheck
          THEN SupportedReturns(t, "kernel", TRUE, FALSE, sc.memo, sc.verdicts)
          ELSE sc' = [sc EXCEPT !.th[t].pc = "mutex"]
    /\ UNCHANGED <<arbVars, mx, dt, dtLast, lk, gl, pl>>

\* GPU_MULTIEXP_SUPPORTED.lock().unwrap() and the look at the memo: a stored
\* verdict is answered at once, an empty memo starts the four multiexps with
\* the mutex held.
SupportedLock(t) ==
    /\ sc.th[t].pc = "mutex"
    /\ sc.mutex = 0
    /\ IF RunsComparison(sc.memo)
       THEN sc' = [sc EXCEPT !.mutex = t, !.th[t].pc = "compare",
                             !.th[t].ran = TRUE]
       ELSE SupportedReturns(t, Answer(sc.memo = "true"), FALSE, TRUE,
                             sc.memo, sc.verdicts)
    /\ UNCHANGED <<arbVars, mx, dt, dtLast, lk, gl, pl>>

\* The memo after the four multiexps ended with out: a .wait()? that
\* returns Err leaves the block before `*supported = Some(res)`.
MemoAfterCompare_ErrIsFalse(out, memo) == IF out = "err" THEN "false" ELSE out

MemoAfterCompare(out, memo) == IF out = "err" THEN memo ELSE out

\* The four multiexps: one of the .wait()? returns Err and the memo stays as
\* it was, or the results are compared and the verdict is stored.
SupportedCompare(t) ==
    /\ sc.th[t].pc = "compare"
    /\ \E out \in {"err", "true", "false"} :
          IF out = "err"
          THEN SupportedReturns(t, "err", FALSE, TRUE,
                                MemoAfterCompare(out, sc.memo), sc.verdicts)
          ELSE SupportedReturns(t, Answer(out = "true"), FALSE, TRUE,
                                MemoAfterCompare(out, sc.memo),
                                sc.verdicts + 1)
    /\ UNCHANGED <<arbVars, mx, dt, dtLast, lk, gl, pl>>

NextCheck ==
    \E t \in Procs :
        \/ SupportedCall(t)
        \/ SupportedCreate(t)
        \/ SupportedLock(t)
        \/ SupportedCompare(t)

SpecCheck == InitCheck /\ [][NextCheck]_vars

C16_Original ==
    (sc.last.op = "supported" /\ sc.last.stored = "false")
        => sc.last.ret = "err"

\* C16: a stored failing verdict is never replaced, and every
\* gpu_multiexp_supported call made after it was stored that does not find
\* BELLMAN_GPU_NO_CHECK set returns an error.
C16_DisabledWithoutOverride ==
    /\ []((sc.last.op = "supported" /\ sc.last.stored = "false"
                                    /\ ~sc.last.noCheck)
             => sc.last.ret = "err")
    /\ [][sc.memo = "false" => sc'.memo = "false"]_vars

\* A call made after the failing verdict got to the memo and returned the
\* error.
C16_Witness ==
    /\ sc.last.op = "supported"
    /\ sc.last.stored = "false"
    /\ ~sc.last.noCheck
    /\ sc.last.memoRead
    /\ sc.last.ret = "err"

\* C17 as stated: with no I/O, synthesis or parameter error, create_proof
\* returns a proof whatever the accelerator does: no kernel (device absent,
\* creation failed or self-check mismatch) or a kernel whose multiexp
\* returns an error in one of the 8 calls.
C17_Original ==
    (obs.op = "create_proof" /\ ~env.faults) => obs.ret = "ok"

(***************************************************************************)
(* Processes that only run create_proof (SpecProofs): nobody calls         *)
(* PriorityLock::lock, and the priority lock is probed by the polls of     *)
(* check_for_higher_prio alone.                                            *)
(***************************************************************************)
InitProofs ==
    /\ InitArb
    /\ pl = 0
    /\ env \in {[NoFaults EXCEPT !.faults = f] : f \in BOOLEAN}
    /\ mx = 0
    /\ dt = 0
    /\ dtLast = 0
    /\ lk = 0
    /\ sc = 0
    /\ gl = 0

NextProofs ==
    \E p \in Procs :
        \/ CreateProof(p)
        \/ GetLockFile(p)
        \/ GetLockFileFail(p)
        \/ Setup(p)
        \/ SourceFail(p)
        \/ GpuIsNotAcquired(p)
        \/ CanLockDrop(p)
        \/ Branch(p)
        \/ GpuCallDone(p)
        \/ Finish(p)

SpecProofs == InitProofs /\ [][NextProofs]_vars

\* Process p is inside the 8 calls of create_proof or just after them,
\* before gpu::unlock(lock).
InPipeline(p) == pc[p] \in {"poll", "poll_drop", "branch", "gpu_call", "finish"}

\* C18 as stated: with no process ever asserting priority, every poll of
\* create_proof returns true, every multiexp call gets &mut multiexp_kern,
\* and the device lock is held until the 8 calls are over.
C18_Original ==
    /\ obs.op = "can_lock" => obs.ret = "true"
    /\ \A p \in Procs :
          InPipeline(p) => /\ ~run[p].keep_cpu
                           /\ dev[p] = "held"
                           /\ run[p].arg # "None"

\* C18: with no process ever asserting priority and the priority lock
\* probed by create_proof alone, as long as no poll's File::create or
\* try_lock_exclusive has met an I/O error, every poll returns true, and
\* every create_proof inside its 8 calls has given each call
\* &mut multiexp_kern and holds the device lock.
C18_NoContentionNoFallback ==
    /\ (obs.op = "can_lock" /\ ~env.probeErr) => obs.ret = "true"
    /\ \A p \in Procs :
          (InPipeline(p) /\ ~env.probeErr)
              => /\ ~run[p].keep_cpu
                 /\ dev[p] = "held"
                 /\ run[p].arg # "None"

\* A create_proof has issued its 8 calls with the kernel and without a
\* false poll while another process waits for the device lock.
C18_Witness ==
    \E p \in Procs : \E q \in Procs \ {p} :
        /\ pc[p] = "finish"
        /\ ~env.probeErr
        /\ env.faults
        /\ run[p].kern
        /\ run[p].arg = "multiexp_kern"
        /\ dev[p] = "held"
        /\ pc[q] = "get_lock"

(***************************************************************************)
(* GPULock (src/gpu/locks.rs) and the two non-blocking probes (SpecProbe): *)
(* processes that take and release the GPU lock and the priority lock and  *)
(* call GPULock::gpu_is_available and PriorityLock::can_lock.              *)
(***************************************************************************)
InitProbe ==
    /\ InitArb
    /\ pl = 0
    /\ env \in {[NoFaults EXCEPT !.faults = f] : f \in BOOLEAN}
    /\ mx = 0
    /\ dt = 0
    /\ dtLast = 0
    /\ lk = 0
    /\ sc = 0
    /\ gl = [p \in Procs |-> "none"]

\* lock_exclusive() on the description of p's GPULock: free when no other
\* description holds the lock on GPU_LOCK_NAME.
GpuLockFree(p) == \A q \in Procs \ {p} : gl[q] = "none"

\* try_lock_exclusive() on the description gpu_is_available has opened.
GpuProbeFree == \A q \in Procs : gl[q] = "none"

\* What File::create, lock_exclusive and unlock on GPU_LOCK_NAME can meet.
GpuIo == IF env.faults THEN {"ok", "err"} ELSE {"ok"}

\* GPULock::lock: lock_exclusive returns once the lock is free, or fails.
\* (A call on a GPULock that already holds the lock changes nothing and is
\* left out.)
GpuLock(p) ==
    /\ pc[p] = "idle"
    /\ gl[p] = "none"
    /\ \E io \in GpuIo :
          /\ io = "ok" => GpuLockFree(p)
          /\ gl' = IF io = "ok" THEN [gl EXCEPT ![p] = "held"] ELSE gl
          /\ obs' = [NoObs EXCEPT !.op = "gpu_lock", !.p = p,
                                  !.ret = IF io = "ok" THEN "ok" ELSE "err"]
    /\ UNCHANGED <<pc, IS_ME, prio, dev, span, run, proofs, locks, mx, dt, dtLast, env, lk, sc, pl>>

\* GPULock::unlock: the file is unlocked, or unlock()? fails and the lock
\* stays held.
GpuUnlock(p) ==
    /\ pc[p] = "idle"
    /\ gl[p] = "held"
    /\ \E io \in GpuIo :
          /\ gl' = IF io = "ok" THEN [gl EXCEPT ![p] = "none"] ELSE gl
          /\ obs' = [NoObs EXCEPT !.op = "gpu_unlock", !.p = p,
                                  !.ret = IF io = "ok" THEN "ok" ELSE "err"]
    /\ UNCHANGED <<pc, IS_ME, prio, dev, span, run, proofs, locks, mx, dt, dtLast, env, lk, sc, pl>>

\* The value of gpu_is_available: File::create(..)? and
\* try_lock_exclusive()? both return the error, a lock held elsewhere
\* included; otherwise Ok(true).
GpuIsAvailableValue(io, free) ==
    IF io = "ok" /\ free THEN "true" ELSE "err"

\* The lock on GPU_LOCK_NAME once drop(file) has closed the probe's
\* description.
GpuAfterDrop_Kept(p) == gl

GpuAfterDrop(p) == [gl EXCEPT ![p] = "none"]

\* GPULock::gpu_is_available up to and including try_lock_exclusive: when
\* the try-lock succeeds the probe's description holds the lock until
\* drop(file); in every other case the function returns Err here.
GpuIsAvailable(p) ==
    /\ pc[p] = "idle"
    /\ \E io \in GpuIo :
          LET r == GpuIsAvailableValue(io, GpuProbeFree)
          IN  IF r = "true"
              THEN /\ gl' = [gl EXCEPT ![p] = "probe"]
                   /\ pc' = [pc EXCEPT ![p] = "gpu_drop"]
                   /\ obs' = NoObs
              ELSE /\ gl' = gl
                   /\ pc' = pc
                   /\ obs' = [NoObs EXCEPT !.op = "gpu_is_available",
                                           !.p = p, !.ret = r,
                                           !.own = (gl[p] = "held"),
                                           !.io = (io # "ok")]
    /\ UNCHANGED <<IS_ME, prio, dev, span, run, proofs, locks, mx, dt, dtLast, env, lk, sc, pl>>

\* gpu_is_available: drop(file) and Ok(true).
GpuIsAvailableDrop(p) ==
    /\ pc[p] = "gpu_drop"
    /\ gl' = GpuAfterDrop(p)
    /\ pc' = [pc EXCEPT ![p] = "idle"]
    /\ obs' = [NoObs EXCEPT !.op = "gpu_is_available", !.p = p,
                            !.ret = "true"]
    /\ UNCHANGED <<IS_ME, prio, dev, span, run, proofs, locks, mx, dt, dtLast, env, lk, sc, pl>>

NextProbe ==
    \E p \in Procs :
        \/ LockCall(p)
        \/ LockAcquire(p)
        \/ LockFail(p)
        \/ Unlock(p)
        \/ CanLockCall(p)
        \/ CanLockDrop(p)
        \/ GpuLock(p)
        \/ GpuUnlock(p)
        \/ GpuIsAvailable(p)
        \/ GpuIsAvailableDrop(p)

SpecProbe == InitProbe /\ [][NextProbe]_vars

\* The processes whose PriorityLock holds the priority lock, and those whose
\* GPULock holds the GPU lock.
PrioOwners == {q \in Procs : prio[q] = "held"}

GpuOwners == {q \in Procs : gl[q] = "held"}

\* A step of a probe: one that enters or leaves the window between the
\* try-lock and the drop, or in which a probe returns.
ProbeStep ==
    \/ obs'.op \in {"can_lock", "gpu_is_available"}
    \/ \E p \in Procs :
          (pc[p] \in {"api_drop", "gpu_drop"}) # (pc'[p] \in {"api_drop", "gpu_drop"})

\* C19: no step of gpu_is_available or can_lock changes who owns the GPU
\* lock or the priority lock, and when either probe has returned, the
\* description it opened holds neither lock: ownership after the call is
\* what it was before it.
C19_ProbesReserveNothing ==
    /\ [](obs.op \in {"can_lock", "gpu_is_available"}
             => prio[obs.p] # "probe" /\ gl[obs.p] # "probe")
    /\ [][ProbeStep => PrioOwners' = PrioOwners /\ GpuOwners' = GpuOwners]_vars

\* gpu_is_available has returned Ok(true) to a process that holds the
\* priority lock, and the GPU lock is free again.
C19_Witness ==
    /\ obs.op = "gpu_is_available"
    /\ obs.ret = "true"
    /\ prio[obs.p] = "held"
    /\ GpuProbeFree

\* C20 as stated: a create_proof that returns UnexpectedIdentity for an
\* identity delta_g1 or delta_g2 has started none of its 8 multiexp calls.
C20_Original ==
    (obs.op = "create_proof" /\ obs.why = "delta") => obs.calls = 0

(***************************************************************************)
(* Further properties of the CPU multiexponentiation (SpecMultiexp)        *)
(***************************************************************************)
\* The 1-based index in the base sequence of the base that active position
\* i takes from the source.
BaseIndex(cur, dens, i) == cur + ActiveBefore(dens, i) + 1

\* The case of C21: a call that does not stop at the query-size assertion
\* and in which some active position finds no base left.
C21_Case ==
    /\ Done
    /\ mx.fn = "multiexp" => QuerySizeOk(mx.dens, mx.exps)
    /\ NumActive(mx.dens, mx.exps) > 0
    /\ ~LongEnough(mx.bases, mx.cur, mx.dens, mx.exps)

\* An active position with a nonzero exponent takes the identity from the
\* source.
C21_IdentityTaken ==
    \E i \in 1..ZipLen(mx.dens, mx.exps) :
        /\ DensityAt(mx.dens, i)
        /\ mx.exps[i] # 0
        /\ BaseIndex(mx.cur, mx.dens, i) <= Len(mx.bases)
        /\ mx.bases[BaseIndex(mx.cur, mx.dens, i)] = Identity

\* C21 as stated: when the base source runs out before every active
\* position has a base, the CPU multiexp ends with the UnexpectedEof error.
C21_Original == C21_Case => mx.res.kind = "eof"

\* C21: when the base source runs out before every active position has a
\* base, the CPU multiexp never returns a sum: it ends with the
\* UnexpectedEof error or with UnexpectedIdentity, and with UnexpectedEof
\* whenever no active position with a nonzero exponent takes the identity,
\* whatever the exponent of the position that finds the source exhausted.
C21_ExhaustedSourceAborts ==
    C21_Case => /\ mx.res.kind \in {"eof", "identity"}
                /\ ~C21_IdentityTaken => mx.res.kind = "eof"

\* The source is found exhausted by a position with exponent zero, which
\* only skips, after a position that took the last base.
C21_Witness ==
    /\ C21_Case
    /\ mx.fn = "multiexp"
    /\ mx.dens.full
    /\ mx.cur = 0
    /\ mx.bases = <<1>>
    /\ mx.exps = <<2, 0>>
    /\ mx.res.kind = "eof"

\* C22 as stated: a probe of the GPU lock or of the priority lock that meets
\* an I/O failure returns false.
C22_Original ==
    (obs.op \in {"can_lock", "gpu_is_available"} /\ obs.io)
        => obs.ret = "false"

\* C23 as stated: PriorityLock::unlock releases the lock before it clears
\* IS_ME, so after an unlock whose release failed the caller's IS_ME is
\* still set.
C23_Original ==
    (obs.op = "unlock" /\ obs.ret = "err") => IS_ME[obs.p]

(***************************************************************************)
(* PriorityLock with more than one lock object per thread (SpecReentry):   *)
(* every PriorityLock::new opens a file description of its own, IS_ME is   *)
(* one flag per thread.                                                    *)
(***************************************************************************)
\* PriorityLock objects a thread has made with PriorityLock::new.
MaxLockObjs == 2
\* PriorityLock::lock calls, all threads together.
MaxRelocks == 3

Objs == 1..MaxLockObjs

NoReObs == [op |-> "none", t |-> 0, ret |-> "none", isMe |-> FALSE,
            held |-> FALSE]

\* flag is IS_ME of each thread, held says which PriorityLock's description
\* holds the file lock, probe whether the description of a can_lock probe
\* holds it, obj the PriorityLock a thread is locking.
InitReentry ==
    /\ InitArb
    /\ env \in {[NoFaults EXCEPT !.faults = f] : f \in BOOLEAN}
    /\ mx = 0
    /\ dt = 0
    /\ dtLast = 0
    /\ lk = 0
    /\ sc = 0
    /\ gl = 0
    /\ pl = [flag |-> [t \in Procs |-> FALSE],
             held |-> [t \in Procs |-> [o \in Objs |-> FALSE]],
             probe |-> [t \in Procs |-> FALSE],
             pc |-> [t \in Procs |-> "idle"],
             obj |-> [t \in Procs |-> 0],
             calls |-> 0,
             last |-> NoReObs]

\* Thread t holds the priority lock through one of its PriorityLocks.
HoldsLock(t) == \E o \in Objs : pl.held[t][o]

\* lock_exclusive() on the description of PriorityLock o of thread t: it
\* returns when no other description holds the lock, the thread's own other
\* PriorityLocks included.
DescFree(t, o) ==
    /\ \A u \in Procs : \A n \in Objs :
          (u # t \/ n # o) => ~pl.held[u][n]
    /\ \A u \in Procs : ~pl.probe[u]

\* try_lock_exclusive() on the description a can_lock probe has opened.
ReProbeFree ==
    /\ \A u \in Procs : \A n \in Objs : ~pl.held[u][n]
    /\ \A u \in Procs : ~pl.probe[u]

\* PriorityLock::lock on object o, first half: IS_ME is set, then the thread
\* enters lock_exclusive.
ReLockCall(t, o) ==
    /\ pl.pc[t] = "idle"
    /\ pl.calls < MaxRelocks
    /\ pl' = [pl EXCEPT !.flag[t] = TRUE, !.pc[t] = "lock_wait",
                        !.obj[t] = o, !.calls = @ + 1, !.last = NoReObs]
    /\ UNCHANGED <<arbVars, mx, dt, dtLast, lk, sc, gl>>

\* PriorityLock::lock, second half: lock_exclusive returns once the lock is
\* free for the description.
ReLockAcquire(t) ==
    /\ pl.pc[t] = "lock_wait"
    /\ DescFree(t, pl.obj[t])
    /\ pl' = [pl EXCEPT !.held[t][pl.obj[t]] = TRUE, !.pc[t] = "idle",
                        !.obj[t] = 0,
                        !.last = [NoReObs EXCEPT !.op = "lock", !.t = t,
                                                 !.ret = "ok"]]
    /\ UNCHANGED <<arbVars, mx, dt, dtLast, lk, sc, gl>>

\* lock_exclusive()? fails: lock returns Err, IS_ME stays set.
ReLockFail(t) ==
    /\ pl.pc[t] = "lock_wait"
    /\ env.faults
    /\ pl' = [pl EXCEPT !.pc[t] = "idle", !.obj[t] = 0,
                        !.last = [NoReObs EXCEPT !.op = "lock", !.t = t,
                                                 !.ret = "err"]]
    /\ UNCHANGED <<arbVars, mx, dt, dtLast, lk, sc, gl>>

\* PriorityLock::unlock on object o: IS_ME is cleared, then the file is
\* unlocked, or unlock()? fails.
ReUnlock(t, o) ==
    /\ pl.pc[t] = "idle"
    /\ pl.flag[t] \/ pl.held[t][o]
    /\ \E ok \in (IF env.faults THEN BOOLEAN ELSE {TRUE}) :
          pl' = [pl EXCEPT !.flag[t] = FALSE,
                           !.held[t][o] = IF ok THEN FALSE ELSE @,
                           !.last = [NoReObs EXCEPT
                                        !.op = "unlock", !.t = t,
                                        !.ret = IF ok THEN "ok" ELSE "err"]]
    /\ UNCHANGED <<arbVars, mx, dt, dtLast, lk, sc, gl>>

\* PriorityLock::can_lock up to and including try_lock_exclusive.
ReCanLock(t) ==
    /\ pl.pc[t] = "idle"
    /\ \E io \in ProbeIo :
          LET r == CanLockValue(pl.flag[t], io, ReProbeFree)
          IN  IF ~pl.flag[t] /\ r = "true"
              THEN pl' = [pl EXCEPT !.probe[t] = TRUE, !.pc[t] = "can_drop",
                                    !.last = NoReObs]
              ELSE pl' = [pl EXCEPT
                             !.last = [NoReObs EXCEPT
                                          !.op = "can_lock", !.t = t,
                                          !.ret = r, !.isMe = pl.flag[t],
                                          !.held = HoldsLock(t)]]
    /\ UNCHANGED <<arbVars, mx, dt, dtLast, lk, sc, gl>>

\* can_lock: the probe's File is dropped and can_lock returns Ok(true).
ReCanLockDrop(t) ==
    /\ pl.pc[t] = "can_drop"
    /\ pl' = [pl EXCEPT !.probe[t] = FALSE, !.pc[t] = "idle",
                        !.last = [NoReObs EXCEPT !.op = "can_lock", !.t = t,
                                                 !.ret = "true"]]
    /\ UNCHANGED <<arbVars, mx, dt, dtLast, lk, sc, gl>>

NextReentry ==
    \E t \in Procs :
        \/ \E o \in Objs : ReLockCall(t, o)
        \/ ReLockAcquire(t)
        \/ ReLockFail(t)
        \/ \E o \in Objs : ReUnlock(t, o)
        \/ ReCanLock(t)
        \/ ReCanLockDrop(t)

SpecReentry == InitReentry /\ [][NextReentry]_vars

\* C24 as stated: a thread that holds the priority lock with its flag set
\* is never inside PriorityLock::lock waiting for a release of the lock it
\* holds itself, and its can_lock calls return true.
C24_Original ==
    /\ \A t \in Procs :
          (pl.pc[t] = "lock_wait" /\ pl.flag[t] /\ HoldsLock(t))
             => DescFree(t, pl.obj[t])
    /\ (pl.last.op = "can_lock" /\ pl.last.isMe /\ pl.last.held)
          => pl.last.ret = "true"

\* The case of C25: multiexp was given a DensityTracker whose length is not
\* the number of exponents.
C25_Case ==
    /\ mx.fn \in {"multiexp", "multiexp_kern"}
    /\ ~mx.dens.full
    /\ Len(mx.dens.bits) # Len(mx.exps)

WindowSkips(c) == {k * c : k \in {j \in 0..NumBits : j * c < NumBits}}

\* The case of C26: a multiexp_inner run from skip 0 that returned a sum, in
\* which position i is active and has exponent one.
C26_Case(i) ==
    /\ mx.fn = "multiexp_inner"
    /\ mx.res.kind = "ok"
    /\ i \in 1..ZipLen(mx.dens, mx.exps)
    /\ DensityAt(mx.dens, i)
    /\ mx.exps[i] = 1

\* C26: an active position with exponent one contributes its base exactly
\* once: the result is the result of the same call with that exponent set
\* to zero plus the base the position takes; window 0 (handle_trivial)
\* adds the base to its accumulator, and every higher window gives the same
\* accumulator and the same final cursor as with exponent zero, so the
\* base is passed over but consumed.
C26_ExponentOneOnce ==
    \A i \in 1..Len(mx.exps) :
        C26_Case(i) =>
            LET zeroed == [mx.exps EXCEPT ![i] = 0]
                base == mx.bases[BaseIndex(mx.cur, mx.dens, i)]
                with1(skip) == Window(mx.bases, mx.cur, mx.dens, mx.exps,
                                      skip, mx.c, skip = 0)
                with0(skip) == Window(mx.bases, mx.cur, mx.dens, zeroed,
                                      skip, mx.c, skip = 0)
            IN  /\ mx.res.val =
                      GAdd(MultiexpInner(mx.bases, mx.cur, mx.dens, zeroed,
                                         0, mx.c, TRUE).val, base)
                /\ with1(0).val = GAdd(with0(0).val, base)
                /\ \A skip \in WindowSkips(mx.c) :
                      /\ with1(skip).err = "none"
                      /\ with1(skip).cur = mx.cur + NumActive(mx.dens, mx.exps)
                      /\ skip > 0 => with1(skip) = with0(skip)

\* Three windows; the exponent one sits at an active position behind an
\* inactive one, next to an exponent with digits in higher windows.
C26_Witness ==
    /\ C26_Case(2)
    /\ mx.c = 1
    /\ ~mx.dens.full
    /\ mx.dens.bits = <<FALSE, TRUE, TRUE>>
    /\ mx.exps = <<3, 1, 5>>
    /\ mx.cur = 1
    /\ mx.bases = <<1, 2, 3>>
    /\ mx.res = Ok(GAdd(2, GMul(3, 5)))

\* The accumulator W_k of window k of the run in mx.
C27_W(k) ==
    Window(mx.bases, mx.cur, mx.dens, mx.exps, k * mx.c, mx.c, k = 0).val

\* The sum of 2^(c*j) * W_j over the windows j = k, k+1, .. below NumBits,
\* divided by 2^(c*k).
RECURSIVE C27_Weighted(_)
C27_Weighted(k) ==
    IF k * mx.c >= NumBits THEN Identity
    ELSE GAdd(C27_W(k), GMul(C27_Weighted(k + 1), Pow2(mx.c)))

\* The sum of 2^(c*j) * W_j over all windows, each term computed by itself.
C27_Sum ==
    LET m == Cardinality(WindowSkips(mx.c)) - 1
        term[j \in 0..m] == GMul(C27_W(j), Pow2(mx.c * j))
        partial[j \in 0..m] ==
            IF j = 0 THEN term[0] ELSE GAdd(partial[j - 1], term[j])
    IN  partial[m]

\* C27: a multiexp_inner run from skip 0 that returns a value returns the
\* sum over the windows k of 2^(c*k) * W_k, W_0 being the least significant
\* window; the value is the only one the call can return, whichever window
\* finishes first.
C27_WindowOrderKept ==
    (mx.fn = "multiexp_inner" /\ mx.res.kind = "ok") =>
        /\ mx.res.val = C27_Sum
        /\ mx.res.val = C27_Weighted(0)
        /\ Outcomes(MultiexpInner(mx.bases, mx.cur, mx.dens, mx.exps,
                                  0, mx.c, TRUE)) = {mx.res}

\* Three windows of width 1 with three different accumulators, none of
\* them the identity.
C27_Witness ==
    /\ mx.fn = "multiexp_inner"
    /\ mx.res.kind = "ok"
    /\ mx.c = 1
    /\ C27_W(0) # Identity
    /\ C27_W(1) # Identity
    /\ C27_W(2) # Identity
    /\ C27_W(0) # C27_W(1)
    /\ C27_W(1) # C27_W(2)
    /\ mx.res.val # GAdd(C27_W(0), GAdd(C27_W(1), C27_W(2)))

\* The state of a window's scan of the run in mx before position i: acc and
\* the buckets are zero and the source is new at position 1.
RECURSIVE ScanBefore(_, _)
ScanBefore(i, skip) ==
    IF i = 1
    THEN [err |-> "none", acc |-> Identity,
          buckets |-> [j \in 1..(Pow2(mx.c) - 1) |-> Identity],
          cur |-> mx.cur]
    ELSE LET st == ScanBefore(i - 1, skip)
         IN  IF st.err # "none" THEN st
             ELSE ScanStep(mx.bases, mx.dens, mx.exps, st, i - 1, skip,
                           mx.c, skip = 0)

\* C28: in every window of a multiexp_inner run the scan reaches position
\* i with the cursor at the initial cursor plus the number of active
\* positions before i; an active position moves it by one whatever its
\* exponent, unless the source fails there, and an inactive position
\* leaves the scan as it is. The window's result agrees with that scan.
C28_CursorPerActivePosition ==
    mx.fn = "multiexp_inner" =>
        \A skip \in WindowSkips(mx.c) :
            /\ \A i \in 1..ZipLen(mx.dens, mx.exps) :
                  LET st == ScanBefore(i, skip)
                      nx == ScanStep(mx.bases, mx.dens, mx.exps, st, i, skip,
                                     mx.c, skip = 0)
                  IN  st.err = "none" =>
                         /\ st.cur = mx.cur + ActiveBefore(mx.dens, i)
                         /\ ~DensityAt(mx.dens, i) => nx = st
                         /\ (DensityAt(mx.dens, i) /\ nx.err = "none")
                               => nx.cur = st.cur + 1
            /\ LET w == Window(mx.bases, mx.cur, mx.dens, mx.exps, skip,
                               mx.c, skip = 0)
                   end == ScanBefore(ZipLen(mx.dens, mx.exps) + 1, skip)
               IN  /\ w.err = end.err
                   /\ w.cur = end.cur
                   /\ w.err = "none"
                         => w.cur = mx.cur + NumActive(mx.dens, mx.exps)

\* Three windows over an inactive position and the exponents zero, one and
\* four (whose digit is zero in windows 0 and 1), from a cursor of 1.
C28_Witness ==
    /\ mx.fn = "multiexp_inner"
    /\ mx.c = 1
    /\ mx.cur = 1
    /\ ~mx.dens.full
    /\ mx.dens.bits = <<TRUE, FALSE, TRUE>>
    /\ mx.exps \in {<<0, 3, 4>>, <<1, 3, 4>>, <<4, 3, 1>>}
    /\ Len(mx.bases) = 3
    /\ mx.res.kind = "ok"

\* C29: when multiexp calls the kernel, the first n exponents of the vector
\* it hands over are the exponents of the active positions in their
\* original order, n is the number of active positions, the bases are the
\* source's whole vector and skip is its cursor.
C29_KernelGetsActiveExponents ==
    (mx.fn = "multiexp_kern" /\ mx.kargs.called) =>
        /\ mx.kargs.n = NumActive(mx.dens, mx.exps)
        /\ SubSeq(mx.kargs.exps, 1, mx.kargs.n)
              = ActiveExps(mx.dens, mx.exps, ZipLen(mx.dens, mx.exps))
        /\ mx.kargs.skip = mx.cur
        /\ mx.kargs.bases = mx.bases

\* The kernel was called for two active positions with different exponents
\* around an inactive one, from a cursor of 1.
C29_Witness ==
    /\ mx.fn = "multiexp_kern"
    /\ mx.kargs.called
    /\ mx.cur = 1
    /\ ~mx.dens.full
    /\ mx.dens.bits = <<TRUE, FALSE, TRUE>>
    /\ mx.exps = <<2, 5, 3>>
    /\ mx.kargs.n = 2
    /\ mx.kargs.exps[1] = 2
    /\ mx.kargs.exps[2] = 3
    /\ mx.res.kind = "ok"

\* p is suspended in a blocking acquisition: in lock_exclusive of
\* PriorityLock::lock while another description holds the priority lock, or
\* in lock_exclusive of get_lock_file while the device lock is held.
Blocked(p) ==
    \/ pc[p] = "lock_wait" /\ ~PrioLockFree(p)
    \/ pc[p] = "get_lock" /\ ~DevLockFree

\* p is inside a call, or still holds the priority lock it has to release.
Unfinished(p) == pc[p] # "idle" \/ prio[p] = "held"

\* The same for threads that own several PriorityLocks.
ReBlocked(t) == pl.pc[t] = "lock_wait" /\ ~DescFree(t, pl.obj[t])

ReUnfinished(t) == pl.pc[t] # "idle" \/ HoldsLock(t)

\* The part of C30 that holds, for processes that each own one PriorityLock
\* (Spec): while some process is unfinished, one of the unfinished
\* processes is not blocked.
C30_OneLockPerProcess ==
    (\E p \in Procs : Unfinished(p))
        => \E p \in Procs : Unfinished(p) /\ ~Blocked(p)

\* C30 as stated, for processes that run any of PriorityLock::lock, unlock
\* and can_lock: in no reachable state is every unfinished process blocked.
C30_Original ==
    (\E t \in Procs : ReUnfinished(t))
        => \E t \in Procs : ReUnfinished(t) /\ ~ReBlocked(t)

\* C31: a process whose create_proof has a kernel multiexp call in progress
\* holds the device lock, from the branch that issues the call until the
\* call has returned, and no two processes have such a call in progress at
\* the same time.
C31_KernelCallsUnderDeviceLock ==
    /\ \A p \in Procs : pc[p] = "gpu_call" => dev[p] = "held"
    /\ \A p \in Procs : \A q \in Procs \ {p} :
          ~(pc[p] = "gpu_call" /\ pc[q] = "gpu_call")

\* One process has a kernel multiexp call in progress while another one,
\* which has fallen back and released the device lock, is still in its
\* create_proof run.
C31_Witness ==
    \E p \in Procs : \E q \in Procs \ {p} :
        /\ pc[p] = "gpu_call"
        /\ dev[p] = "held"
        /\ run[p].k > 1
        /\ InCalls(q)
        /\ run[q].keep_cpu
        /\ dev[q] = "none"

\* C32: when create_proof has returned, with a proof or with an error, the
\* calling process does not hold the device lock.
C32_ReturnedWithoutDeviceLock ==
    obs.op = "create_proof" => dev[obs.p] = "none"

\* create_proof has returned a proof after the fallback of its eighth call
\* had unlocked the device lock, which gpu::unlock then released a second
\* time.
C32_Witness ==
    /\ obs.op = "create_proof"
    /\ obs.ret = "ok"
    /\ obs.calls = NumCalls
    /\ obs.unlocked
    /\ ~obs.keep_cpu
    /\ dev[obs.p] = "none"

\* C33 as stated: a gpu_multiexp_supported call that ended with an error
\* instead of a verdict leaves the memo empty, and the call made next runs
\* the comparison again.
C33_Original ==
    /\ (sc.last.op = "supported" /\ sc.last.ret = "err" /\ sc.verdicts = 0)
          => sc.memo = NoVerdict
    /\ (sc.last.op = "supported" /\ sc.last.afterErr) => sc.last.ran

\* C33: a gpu_multiexp_supported call that ends with an error instead of a
\* verdict leaves the memo as it was, so that the memo is empty as long as
\* no comparison has reached a verdict; the call made next, when it gets
\* to the memo (its kernel was created and BELLMAN_GPU_NO_CHECK is not
\* set), runs the comparison again unless another thread has stored a
\* verdict in the meantime.
C33_ErrorMemoizesNothing ==
    /\ [](sc.verdicts = 0 => sc.memo = NoVerdict)
    /\ [][(sc'.last.op = "supported" /\ sc'.last.ret = "err"
                                     /\ sc'.verdicts = sc.verdicts)
             => sc'.memo = sc.memo]_vars
    /\ []((sc.last.op = "supported" /\ sc.last.afterErr
                                    /\ sc.last.memoRead)
             => (sc.last.ran \/ sc.memo # NoVerdict))

\* The call made after one that ended with an error found the memo empty,
\* ran the comparison and returned the kernel.
C33_Witness ==
    /\ sc.last.op = "supported"
    /\ sc.last.afterErr
    /\ sc.last.stored = NoVerdict
    /\ sc.last.memoRead
    /\ sc.last.ran
    /\ sc.last.ret = "kernel"
    /\ sc.memo = "true"
    /\ sc.verdicts = 1

====
